---- MODULE Spec2Model ----
(***************************************************************************)
(* Zodsei: a contract-first HTTP client.  The model follows the request    *)
(* pipeline of src/src/client.ts: request validation, RequestContext       *)
(* construction, the middleware chain of src/src/middleware/index.ts with  *)
(* the retry and cache middleware, the transport adapter, and response     *)
(* validation.                                                             *)
(*                                                                         *)
(* JavaScript strings are sequences of one-character strings.  A JS value  *)
(* is a record [t, s]: t = "str" for a string, "num" for a number, s its   *)
(* characters.  An object is a sequence of entries [k, v] in insertion     *)
(* order (the order Object.entries yields).                                *)
(***************************************************************************)
EXTENDS Integers, Sequences, FiniteSets, TLC

VARIABLES
    caller,      \* what the calling program holds: the ClientConfig object it passed
                 \* to createClient and what createClient gave back
    config,      \* InternalClientConfig of the client (client.ts normalizeConfig)
    middleware,  \* MiddlewareExecutor.middleware, the ordered list
    cache,       \* MemoryCacheStorage.cache of the cacheMiddleware at each position
    adapter,     \* ZodseiClient.adapter, the memoized transport handle
    adapters,    \* number of transport handles created so far
    now,         \* the last value Date.now() returned
    calls        \* one record per endpoint-method invocation

vars == <<caller, config, middleware, cache, adapter, adapters, now, calls>>

----------------------------------------------------------------------------
(* Bounds of the model *)

MaxCalls == 2      \* endpoint-method invocations per behaviour
MaxMw == 2         \* length of the middleware list given to createClient
MaxRetries == 2    \* largest `retries` given to retryMiddleware
MaxTime == 2       \* largest value Date.now() returns

CallIds == 1..MaxCalls

----------------------------------------------------------------------------
(* Strings *)

RECURSIVE Concat(_)
Concat(ss) == IF ss = <<>> THEN <<>> ELSE Head(ss) \o Concat(Tail(ss))

StartsWith(s, p) == Len(s) >= Len(p) /\ SubSeq(s, 1, Len(p)) = p

\* index of the first occurrence of p in s, 0 when there is none
IndexOf(s, p) ==
    LET hits == {i \in 1..(Len(s) - Len(p) + 1) : SubSeq(s, i, i + Len(p) - 1) = p}
    IN IF hits = {} THEN 0 ELSE CHOOSE i \in hits : \A j \in hits : i <= j

\* String.prototype.replace(pattern: string, replacement): first occurrence only
StrReplace(s, p, r) ==
    LET i == IndexOf(s, p)
    IN IF i = 0 THEN s
       ELSE SubSeq(s, 1, i - 1) \o r \o SubSeq(s, i + Len(p), Len(s))

Unreserved == {"a", "b", "i", "d", "u", "x", "p", "1", "2", "h"}

\* encodeURIComponent on the characters of the model's alphabet
EncodeChar(c) ==
    CASE c \in Unreserved -> <<c>>
      [] c = " " -> <<"%", "2", "0">>
      [] c = "/" -> <<"%", "2", "F">>
      [] c = ":" -> <<"%", "3", "A">>
      [] c = "?" -> <<"%", "3", "F">>
      [] c = "&" -> <<"%", "2", "6">>
      [] c = "=" -> <<"%", "3", "D">>
      [] OTHER -> <<c>>

encodeURIComponent(s) == Concat([i \in 1..Len(s) |-> EncodeChar(s[i])])

\* application/x-www-form-urlencoded serializer of URLSearchParams
FormEncodeChar(c) == IF c = " " THEN <<"+">> ELSE EncodeChar(c)

FormEncode(s) == Concat([i \in 1..Len(s) |-> FormEncodeChar(s[i])])

\* String(value)
String(v) == v.s

toUpperCase(m) ==
    CASE m = "get" -> "GET"
      [] m = "post" -> "POST"
      [] m = "put" -> "PUT"
      [] m = "delete" -> "DELETE"
      [] m = "patch" -> "PATCH"
      [] m = "head" -> "HEAD"
      [] OTHER -> m

----------------------------------------------------------------------------
(* Objects: sequences of entries [k |-> key, v |-> value] *)

Keys(obj) == {obj[i].k : i \in 1..Len(obj)}

HasKey(obj, k) == \E i \in 1..Len(obj) : obj[i].k = k

Get(obj, k) == obj[CHOOSE i \in 1..Len(obj) : obj[i].k = k].v

\* obj[k] = v: overwrite in place, or append a new key
Put(obj, k, v) ==
    IF HasKey(obj, k)
    THEN [i \in 1..Len(obj) |-> IF obj[i].k = k THEN [k |-> k, v |-> v] ELSE obj[i]]
    ELSE Append(obj, [k |-> k, v |-> v])

Undefined == <<[k |-> <<"undefined">>, v |-> [t |-> "undefined", s |-> <<>>]]>>

\* an optional property of an object: {} when it is absent, {v} when it is v
Absent == {}

Some(v) == {v}

The(opt) == CHOOSE v \in opt : TRUE

\* opt ?? default
OrElse(opt, default) == IF opt = Absent THEN default ELSE The(opt)

Null == <<[k |-> <<"null">>, v |-> [t |-> "null", s |-> <<>>]]>>

Str(s) == [t |-> "str", s |-> s]

Num(s) == [t |-> "num", s |-> s]

----------------------------------------------------------------------------
(* Path utilities (utils/path) *)

\* end of the run of non-"/" characters of s that starts at i
RECURSIVE RunEnd(_, _)
RunEnd(s, i) == IF i < Len(s) /\ s[i + 1] # "/" THEN RunEnd(s, i + 1) ELSE i

\* path.match(/:([^/]+)/g), each match without its leading ":"
RECURSIVE ParamNamesFrom(_, _)
ParamNamesFrom(s, i) ==
    IF i > Len(s) THEN <<>>
    ELSE IF s[i] = ":" /\ i < Len(s) /\ s[i + 1] # "/"
         THEN <<SubSeq(s, i + 1, RunEnd(s, i + 1))>> \o ParamNamesFrom(s, RunEnd(s, i + 1) + 1)
         ELSE ParamNamesFrom(s, i + 1)

extractPathParamNames(path) == ParamNamesFrom(path, 1)

Includes(seq, x) == \E i \in 1..Len(seq) : seq[i] = x

\* for (const [key, value] of Object.entries(params)) result = result.replace(...)
RECURSIVE replacePath(_, _)
replacePath(path, params) ==
    IF params = <<>> THEN path
    ELSE replacePath(StrReplace(path, <<":">> \o Head(params).k,
                                encodeURIComponent(Head(params).v)),
                     Tail(params))

RECURSIVE QueryPairs(_)
QueryPairs(params) ==
    IF params = <<>> THEN <<>>
    ELSE LET e == Head(params)
         IN (IF e.v.t \in {"undefined", "null"} THEN <<>>
             ELSE <<FormEncode(e.k) \o <<"=">> \o FormEncode(String(e.v))>>)
            \o QueryPairs(Tail(params))

RECURSIVE Join(_, _)
Join(parts, sep) ==
    IF parts = <<>> THEN <<>>
    ELSE IF Len(parts) = 1 THEN Head(parts)
    ELSE Head(parts) \o sep \o Join(Tail(parts), sep)

buildQueryString(params) ==
    LET queryString == Join(QueryPairs(params), <<"&">>)
    IN IF queryString # <<>> THEN <<"?">> \o queryString ELSE <<>>

NoQuery == <<[k |-> <<"-">>, v |-> [t |-> "undefined", s |-> <<>>]]>>

\* buildUrl(baseUrl, path, query?); NoQuery stands for an omitted query
buildUrl(baseUrl, path, query) ==
    LET cleanBaseUrl == IF baseUrl # <<>> /\ baseUrl[Len(baseUrl)] = "/"
                        THEN SubSeq(baseUrl, 1, Len(baseUrl) - 1) ELSE baseUrl
        cleanPath == IF StartsWith(path, <<"/">>) THEN path ELSE <<"/">> \o path
        queryString == IF query # NoQuery THEN buildQueryString(query) ELSE <<>>
    IN cleanBaseUrl \o cleanPath \o queryString

\* entries are visited first to last; a repeated key keeps its first position
RECURSIVE CollectPath(_, _, _)
CollectPath(names, data, acc) ==
    IF data = <<>> THEN acc
    ELSE CollectPath(names, Tail(data),
                     IF Includes(names, Head(data).k)
                     THEN Put(acc, Head(data).k, String(Head(data).v)) ELSE acc)

RECURSIVE CollectQuery(_, _, _)
CollectQuery(names, data, acc) ==
    IF data = <<>> THEN acc
    ELSE CollectQuery(names, Tail(data),
                      IF Includes(names, Head(data).k)
                      THEN acc ELSE Put(acc, Head(data).k, Head(data).v))

\* faulty variant: path parameters are left in the query as well
separateParamsKeepAll(path, data) ==
    LET pathParamNames == extractPathParamNames(path)
    IN IF data \in {Undefined, Null}
       THEN [pathParams |-> <<>>, queryParams |-> <<>>]
       ELSE [pathParams |-> CollectPath(pathParamNames, data, <<>>),
             queryParams |-> data]

separateParams(path, data) ==
    LET pathParamNames == extractPathParamNames(path)
    IN IF data \in {Undefined, Null}
       THEN [pathParams |-> <<>>, queryParams |-> <<>>]
       ELSE [pathParams |-> CollectPath(pathParamNames, data, <<>>),
             queryParams |-> CollectQuery(pathParamNames, data, <<>>)]

\* faulty variant: only GET is without a body
shouldHaveBodyExceptGet(method) == toUpperCase(method) # "GET"

\* !['GET', 'HEAD', 'DELETE'].includes(method.toUpperCase())
shouldHaveBody(method) == toUpperCase(method) \notin {"GET", "HEAD", "DELETE"}

----------------------------------------------------------------------------
(* Values that flow through the pipeline *)

\* A ResponseContext (t = "return"), a raised error (t = "throw") or nothing yet.
\* id tells two objects of equal content apart: the number of the transport
\* attempt of the call that produced it (0 for what the client itself raises).
NoVal == [t |-> "none", kind |-> "", status |-> 0, type |-> "", data |-> <<>>, id |-> 0]

Response(status, data, id) ==
    [t |-> "return", kind |-> "", status |-> status, type |-> "", data |-> data, id |-> id]

Raise(kind, status, type, id) ==
    [t |-> "throw", kind |-> kind, status |-> status, type |-> type, data |-> <<>>, id |-> id]

HttpError(status, id) == Raise("HttpError", status, "", id)
NetworkError(id) == Raise("NetworkError", 0, "", id)
TimeoutError(id) == Raise("TimeoutError", 0, "", id)
ValidationError(type) == Raise("ValidationError", 0, type, 0)
\* createAdapter: throw new Error(`Unsupported adapter type: ${type}`)
AdapterLoadError == Raise("Error", 0, "", 0)

----------------------------------------------------------------------------
(* Validators (zod schemas) and the contract *)

KeyId == <<"i", "d">>
KeyP == <<"p">>
ValA == Str(<<"a">>)
ValB == Str(<<"b">>)
ValBad == Str(<<"x">>)

NoSchema == [present |-> FALSE, fields |-> <<>>]

\* z.object({ id: ... }): every field must be there with an accepted value
Schema(fields) == [present |-> TRUE, fields |-> fields]

UserSchema == Schema(<<[k |-> KeyId, ok |-> {ValA, ValB}]>>)

\* z.object({ id: ..., p: ... })
ItemSchema == Schema(<<[k |-> KeyId, ok |-> {ValA, ValB}], [k |-> KeyP, ok |-> {Str(<<"1">>)}]>>)

Accepts(schema, data) ==
    /\ data # Undefined
    /\ \A i \in 1..Len(schema.fields) :
          /\ HasKey(data, schema.fields[i].k)
          /\ Get(data, schema.fields[i].k) \in schema.fields[i].ok

\* schema.parse(data): the declared fields in schema order, unknown keys stripped
Parse(schema, data) ==
    [i \in 1..Len(schema.fields) |->
        [k |-> schema.fields[i].k, v |-> Get(data, schema.fields[i].k)]]

\* faulty variant: request validation that accepts everything
validateRequestLax(schema, data) == [ok |-> TRUE, value |-> data, error |-> NoVal]

\* validateRequest(schema, data): [ok, value] or [ok = FALSE, error]
validateRequest(schema, data) ==
    IF ~schema.present THEN [ok |-> TRUE, value |-> data, error |-> NoVal]
    ELSE IF Accepts(schema, data)
         THEN [ok |-> TRUE, value |-> Parse(schema, data), error |-> NoVal]
         ELSE [ok |-> FALSE, value |-> data, error |-> ValidationError("request")]

\* faulty variant: response validation that accepts everything
validateResponseLax(schema, data) == [ok |-> TRUE, value |-> data, error |-> NoVal]

\* faulty variant: an absent schema rejects instead of passing the data through
validateResponseNeedsSchema(schema, data) ==
    IF schema.present /\ Accepts(schema, data)
    THEN [ok |-> TRUE, value |-> Parse(schema, data), error |-> NoVal]
    ELSE [ok |-> FALSE, value |-> data, error |-> ValidationError("response")]

\* validateResponse(schema, data): [ok, value] or [ok = FALSE, error]
validateResponse(schema, data) ==
    IF ~schema.present THEN [ok |-> TRUE, value |-> data, error |-> NoVal]
    ELSE IF Accepts(schema, data)
         THEN [ok |-> TRUE, value |-> Parse(schema, data), error |-> NoVal]
         ELSE [ok |-> FALSE, value |-> data, error |-> ValidationError("response")]

\* a nested contract of the group below
AdminContract ==
    [remove |-> [path |-> <<"/", "u", "/", ":", "i", "d">>, method |-> "delete",
                 request |-> UserSchema, response |-> NoSchema],
     ping |-> [path |-> <<"/", "u", "/", ":", "i", "d">>, method |-> "put",
               request |-> ItemSchema, response |-> UserSchema]]

\* a nested contract: endpoints and a further group
UsersContract ==
    [create |-> [path |-> <<"/", "u">>, method |-> "post",
                 request |-> UserSchema, response |-> UserSchema],
     getUser |-> [path |-> <<"/", "u">>, method |-> "get",
                  request |-> ItemSchema, response |-> UserSchema],
     admin |-> AdminContract]

Contract ==
    [getUser |-> [path |-> <<"/", "u", "/", ":", "i", "d">>, method |-> "get",
                  request |-> UserSchema, response |-> UserSchema],
     createUser |-> [path |-> <<"/", "u">>, method |-> "post",
                     request |-> UserSchema, response |-> UserSchema],
     findUsers |-> [path |-> <<"/", "u">>, method |-> "get",
                    request |-> ItemSchema, response |-> UserSchema],
     getItem |-> [path |-> <<"/", "u", "/", ":", "i", "d">>, method |-> "get",
                  request |-> ItemSchema, response |-> NoSchema],
     listUsers |-> [path |-> <<"/", "u">>, method |-> "get",
                    request |-> NoSchema, response |-> NoSchema],
     updateUser |-> [path |-> <<"/", "u", "/", ":", "i", "d">>, method |-> "put",
                     request |-> ItemSchema, response |-> UserSchema],
     patchUser |-> [path |-> <<"/", "u", "/", ":", "i", "d">>, method |-> "patch",
                    request |-> ItemSchema, response |-> UserSchema],
     deleteUser |-> [path |-> <<"/", "u", "/", ":", "i", "d">>, method |-> "delete",
                     request |-> UserSchema, response |-> NoSchema],
     ping |-> [path |-> <<"/", "u">>, method |-> "post",
               request |-> NoSchema, response |-> UserSchema],
     headUser |-> [path |-> <<"/", "u", "/", ":", "i", "d">>, method |-> "head",
                   request |-> ItemSchema, response |-> NoSchema],
     users |-> UsersContract]

\* value && typeof value === 'object' && 'path' in value && 'method' in value
isEndpointDefinition(value) == {"path", "method"} \subseteq DOMAIN value

\* value && typeof value === 'object' && !this.isEndpointDefinition(value)
isNestedContract(value) == ~isEndpointDefinition(value)

\* the endpoints of the middleware scenarios
EndpointNames == {"getUser", "createUser"}

\* the keys the client's Proxy answers with an endpoint method
AllEndpointNames == {k \in DOMAIN Contract : isEndpointDefinition(Contract[k])}

\* an omitted `endpoint` argument of createEndpointMethod
NoEndpoint == [path |-> <<>>, method |-> "", request |-> NoSchema, response |-> NoSchema]

\* the arguments callers pass
Inputs ==
    { <<[k |-> KeyId, v |-> ValA]>>,
      <<[k |-> KeyId, v |-> ValB]>>,
      <<[k |-> KeyId, v |-> ValBad]>> }

\* the argument { id: 'a' } of a getUser call
UserA == <<[k |-> KeyId, v |-> ValA]>>

\* the bodies the server answers with
Bodies ==
    { <<[k |-> KeyId, v |-> ValA]>>,
      <<[k |-> KeyId, v |-> ValB], [k |-> KeyP, v |-> Str(<<"1">>)]>>,
      <<[k |-> KeyId, v |-> ValBad]>> }

BaseUrl == <<"h">>

----------------------------------------------------------------------------
(* RequestContext *)

\* faulty variant: the request holds the client's own headers object
HeadersShared(headers) == [object |-> "config", entries |-> headers]

\* { ...this.config.headers }: a new object with the entries of the client's
HeadersCopy(headers) == [object |-> "request", entries |-> headers]

NoRequest == [url |-> <<>>, method |-> "", headers |-> HeadersCopy(<<>>), body |-> Undefined,
              params |-> <<>>, query |-> Undefined]

\* faulty variant: the body is the input without the path parameters
buildRequestContextStripped(endpoint, data) ==
    LET sep == separateParams(endpoint.path, data)
        finalPath == replacePath(endpoint.path, sep.pathParams)
        url == IF endpoint.method = "get"
               THEN buildUrl(config.baseUrl, finalPath, sep.queryParams)
               ELSE buildUrl(config.baseUrl, finalPath, NoQuery)
        body == IF shouldHaveBody(endpoint.method)
                THEN (IF endpoint.method = "get" THEN Undefined ELSE sep.queryParams)
                ELSE Undefined
    IN [url |-> url, method |-> endpoint.method, headers |-> HeadersCopy(config.headers),
        body |-> body, params |-> sep.pathParams,
        query |-> IF endpoint.method = "get" THEN sep.queryParams ELSE Undefined]

\* ZodseiClient.buildRequestContext
buildRequestContext(endpoint, data) ==
    LET sep == separateParams(endpoint.path, data)
        finalPath == replacePath(endpoint.path, sep.pathParams)
        url == IF endpoint.method = "get"
               THEN buildUrl(config.baseUrl, finalPath, sep.queryParams)
               ELSE buildUrl(config.baseUrl, finalPath, NoQuery)
        body == IF shouldHaveBody(endpoint.method)
                THEN (IF endpoint.method = "get" THEN Undefined ELSE data)
                ELSE Undefined
    IN [url |-> url, method |-> endpoint.method, headers |-> HeadersCopy(config.headers),
        body |-> body, params |-> sep.pathParams,
        query |-> IF endpoint.method = "get" THEN sep.queryParams ELSE Undefined]

----------------------------------------------------------------------------
(* Middleware instances *)

\* const loggingMiddleware = async (request, next) => { log; await next; log }
Logger(name) == [name |-> name, retries |-> 0, ttl |-> 0]
\* retryMiddleware({ retries, delay, backoff?, onRetry? }) with the default
\* retryCondition; backoff is an optional property, onRetry: a callback is given
RetryWith(retries, delay, backoff, onRetry) ==
    [name |-> "Retry", retries |-> retries, ttl |-> 0,
     delay |-> delay, backoff |-> backoff, onRetry |-> onRetry]
\* retryMiddleware({ retries, delay })
Retry(retries) == RetryWith(retries, 1, Absent, FALSE)
\* cacheMiddleware({ ttl }) with the default key, predicate and storage
Cache(ttl) == [name |-> "Cache", retries |-> 0, ttl |-> ttl]
\* const authMiddleware = async (req, next) => { req.headers.Authorization =
\* 'Bearer demo-token'; ...; return next(req) }
Auth == [name |-> "Auth", retries |-> 0, ttl |-> 0]
\* composeMiddleware(...inner)
Compose(inner) == [name |-> "Compose", retries |-> 0, ttl |-> 0, inner |-> inner]

LoggerNames == {"X", "Y", "Z"}

\* the sequences over S of length at most n
SeqsUpTo(S, n) == UNION {[1..k -> S] : k \in 0..n}

----------------------------------------------------------------------------
(* One endpoint-method invocation *)

\* a frame of the call's stack of pending async functions; handle: the local
\* `adapter` of executeHttpRequest (0: not yet assigned); ex: the executor whose
\* `next` the function was called with (0: the client's middlewareExecutor)
Frame(mw, pos) ==
    [mw |-> mw, pos |-> pos, pc |-> "start", attempt |-> 0, lastError |-> NoVal, handle |-> 0,
     ex |-> 0]

\* faulty variant: the new executor starts at the second middleware of its list
ExecutorFromSecond(list, from) == [middleware |-> list, index |-> 1, from |-> from]

\* new MiddlewareExecutor(list) made by a composed middleware, and its
\* execute(request, next): index = 0, and the finalHandler is the `next` of the
\* executor `from` that dispatched the composed middleware
Executor(list, from) == [middleware |-> list, index |-> 0, from |-> from]

IdleCall ==
    [st |-> "idle", via |-> <<>>, endpoint |-> "", target |-> NoEndpoint, arg |-> <<>>,
     data |-> <<>>,
     request |-> NoRequest,
     index |-> 0, executors |-> <<>>, stack |-> <<>>, ret |-> NoVal, outcome |-> NoVal,
     log |-> <<>>]

Top(r) == r.stack[Len(r.stack)]

Pop(r) == [r EXCEPT !.stack = SubSeq(r.stack, 1, Len(r.stack) - 1)]

SetTop(r, f) == [r EXCEPT !.stack[Len(r.stack)] = f]

\* observation log entry (not program state): what happened, at which position.
\* `to` is the position a "next" dispatches to, the attempt of a retry event,
\* the clock reading of a cache event, the handle of a transport event.
Event(ev, mw, pos, to, res) == [ev |-> ev, mw |-> mw, pos |-> pos, to |-> to, res |-> res]

Logged(r, e) == [r EXCEPT !.log = Append(r.log, e)]

\* faulty variant: the index advances by two
NextIndexSkip(index) == index + 2

\* the index after a dispatch: const middleware = this.middleware[index++]
NextIndex(index) == index + 1

\* the finalHandler of execute: (ctx) => this.executeHttpRequest(ctx)
Transport == [name |-> "transport", retries |-> 0, ttl |-> 0]

Push(r, mw, pos) == [r EXCEPT !.stack = Append(r.stack, Frame(mw, pos))]

RECURSIVE NextOf(_, _, _)
RECURSIVE Run(_, _, _, _)

\* middleware(ctx, next): the middleware m at position pos of the list of
\* executor ex is called with that executor's `next`.  A composed middleware
\* runs to its await at once: const executor = new MiddlewareExecutor(inner);
\* return executor.execute(request, next)
Run(r, m, pos, ex) ==
    LET pushed == [r EXCEPT !.stack = Append(r.stack, [Frame(m, pos) EXCEPT !.ex = ex])]
    IN IF m.name # "Compose" THEN pushed
       ELSE LET made == [pushed EXCEPT !.executors = Append(r.executors, Executor(m.inner, ex)),
                                       !.stack[Len(pushed.stack)].pc = "await"]
            IN IF Len(m.inner) = 0
               THEN NextOf(made, ex, pos)
               ELSE NextOf(made, Len(made.executors), pos)

\* The `next` closure of the execute of executor ex (0: the client's, whose
\* list is this.middleware and whose finalHandler is the transport), called by
\* the frame at position `from`.  index is 0-based as in the code.
NextOf(r, ex, from) ==
    IF ex = 0
    THEN IF r.index >= Len(middleware)
         THEN Push(Logged(r, Event("next", "transport", from, Len(middleware) + 1, NoVal)),
                   Transport, Len(middleware) + 1)
         ELSE LET m == middleware[r.index + 1]
              IN Run([Logged(r, Event("next", m.name, from, r.index + 1, NoVal))
                         EXCEPT !.index = NextIndex(r.index)], m, r.index + 1, 0)
    ELSE LET e == r.executors[ex]
         IN IF e.index >= Len(e.middleware)
            THEN NextOf(r, e.from, from)
            ELSE LET m == e.middleware[e.index + 1]
                 IN Run([Logged(r, Event("next", m.name, from, e.index + 1, NoVal))
                            EXCEPT !.executors[ex].index = NextIndex(e.index)],
                        m, e.index + 1, ex)

\* next(ctx) called by the running function (the top frame; execute itself
\* when the stack is empty) at position `from`
InvokeNext(r, from) ==
    NextOf(r, IF r.stack = <<>> THEN 0 ELSE Top(r).ex, from)

\* MiddlewareExecutor.execute(request, finalHandler)
execute(r) ==
    IF Len(middleware) = 0
    THEN Push(r, Transport, 1)
    ELSE InvokeNext([r EXCEPT !.index = 0], 0)

Upd(c, r) == calls' = [calls EXCEPT ![c] = r]

\* the call awaits nothing but its top frame, which is the middleware `name`
\* at program point pc
At(c, name, pc) ==
    /\ calls[c].st = "running"
    /\ calls[c].stack # <<>>
    /\ Top(calls[c]).mw.name = name
    /\ Top(calls[c]).pc = pc

----------------------------------------------------------------------------
(* Client core *)

\* const validatedData = this.config.validateRequest
\*     ? validateRequest(endpoint.request, data) : data
validatedData(endpoint, data) ==
    IF config.validateRequest
    THEN validateRequest(endpoint.request, data)
    ELSE [ok |-> TRUE, value |-> data, error |-> NoVal]

\* faulty variant: the validateResponse flag is not consulted
validatedResponseAlways(endpoint, data) == validateResponse(endpoint.response, data)

\* const validatedResponse = this.config.validateResponse
\*     ? validateResponse(endpoint.response, response.data) : response.data
validatedResponse(endpoint, data) ==
    IF config.validateResponse
    THEN validateResponse(endpoint.response, data)
    ELSE [ok |-> TRUE, value |-> data, error |-> NoVal]

\* faulty variant: the client's contract is looked up by name first
targetEndpointByName(endpointName, endpoint) ==
    IF endpointName \in DOMAIN Contract THEN Contract[endpointName] ELSE endpoint

\* const targetEndpoint = endpoint || (this.contract[endpointName])
targetEndpoint(endpointName, endpoint) ==
    IF endpoint # NoEndpoint THEN endpoint ELSE Contract[endpointName]

\* the method createEndpointMethod(endpointName, endpoint) returns, called with
\* arg: executeEndpoint up to the first suspension.  via: the accessor path the
\* caller used (observation only).
StartEndpoint(c, via, endpointName, endpoint, arg) ==
    /\ caller.client.t = "return"
    /\ calls[c].st = "idle"
    /\ LET target == targetEndpoint(endpointName, endpoint)
           data == IF target.request.present THEN arg ELSE Undefined
           v == validatedData(target, data)
           r == [calls[c] EXCEPT !.st = "running", !.via = via, !.endpoint = endpointName,
                                 !.target = target, !.arg = arg, !.data = data]
       IN IF ~v.ok
          THEN Upd(c, [r EXCEPT !.st = "done", !.outcome = v.error])
          ELSE Upd(c, execute([r EXCEPT !.request = buildRequestContext(target, v.value)]))
    /\ UNCHANGED <<caller, config, middleware, cache, adapter, adapters, now>>

\* the caller awaits each call before it makes the next one
EndpointMethod(c, via, endpointName, endpoint, arg) ==
    /\ \A d \in CallIds : d < c => calls[d].st = "done"
    /\ StartEndpoint(c, via, endpointName, endpoint, arg)

\* client[name](arg) while earlier calls are still pending (Promise.all)
CallConcurrently(c, name, arg) ==
    /\ name \in DOMAIN Contract
    /\ isEndpointDefinition(Contract[name])
    /\ StartEndpoint(c, <<name>>, name, NoEndpoint, arg)

\* client[name](arg): the constructor's Proxy answers a top-level endpoint key
\* with createEndpointMethod(prop)
CallEndpoint(c, name, arg) ==
    /\ name \in DOMAIN Contract
    /\ isEndpointDefinition(Contract[name])
    /\ EndpointMethod(c, <<name>>, name, NoEndpoint, arg)

\* what the Proxy of createNestedClient(nestedContract) answers for the keys
\* of an accessor path: the endpoint found, or NoEndpoint (undefined)
RECURSIVE NestedGet(_, _)
NestedGet(nestedContract, props) ==
    LET prop == Head(props)
    IN IF props = <<>> \/ prop \notin DOMAIN nestedContract THEN NoEndpoint
       ELSE IF isEndpointDefinition(nestedContract[prop])
            THEN (IF Len(props) = 1 THEN nestedContract[prop] ELSE NoEndpoint)
            ELSE NestedGet(nestedContract[prop], Tail(props))

\* client.a.b(arg): the constructor's Proxy answers a nested-contract key with
\* createNestedClient, whose Proxy answers an endpoint key with
\* createEndpointMethod(prop, nestedContract[prop])
CallNested(c, props, arg) ==
    /\ Len(props) > 1
    /\ Head(props) \in DOMAIN Contract
    /\ isNestedContract(Contract[Head(props)])
    /\ NestedGet(Contract[Head(props)], Tail(props)) # NoEndpoint
    /\ EndpointMethod(c, props, props[Len(props)],
                      NestedGet(Contract[Head(props)], Tail(props)), arg)

\* faulty variant: a raised error reaches the caller wrapped in a new Error
FinishWrapping(c) ==
    /\ calls[c].st = "running"
    /\ calls[c].stack = <<>>
    /\ calls[c].ret.t # "none"
    /\ LET r == calls[c]
           v == validatedResponse(r.target, r.ret.data)
           out == IF r.ret.t = "throw" THEN Raise("Error", 0, "", 0)
                  ELSE IF v.ok THEN [NoVal EXCEPT !.t = "return", !.data = v.value]
                  ELSE v.error
       IN Upd(c, [r EXCEPT !.st = "done", !.outcome = out, !.ret = NoVal])
    /\ UNCHANGED <<caller, config, middleware, cache, adapter, adapters, now>>

\* executeEndpoint after `await this.middlewareExecutor.execute(...)`
Finish(c) ==
    /\ calls[c].st = "running"
    /\ calls[c].stack = <<>>
    /\ calls[c].ret.t # "none"
    /\ LET r == calls[c]
           v == validatedResponse(r.target, r.ret.data)
           out == IF r.ret.t = "throw" THEN r.ret
                  ELSE IF v.ok THEN [NoVal EXCEPT !.t = "return", !.data = v.value]
                  ELSE v.error
       IN Upd(c, [r EXCEPT !.st = "done", !.outcome = out, !.ret = NoVal])
    /\ UNCHANGED <<caller, config, middleware, cache, adapter, adapters, now>>

----------------------------------------------------------------------------
(* Logging middleware *)

\* console.log('Request:', request); const response = await next(request)
LogBefore(c) ==
    /\ \E n \in LoggerNames : At(c, n, "start")
    /\ LET r == calls[c]
           f == Top(r)
       IN Upd(c, InvokeNext(SetTop(Logged(r, Event("before", f.mw.name, f.pos, 0, NoVal)),
                                   [f EXCEPT !.pc = "await"]), f.pos))
    /\ UNCHANGED <<caller, config, middleware, cache, adapter, adapters, now>>

KeyAuthorization == <<"A">>

Token == Str(<<"t">>)

\* req.headers.Authorization = 'Bearer demo-token'; return next(req).  The
\* write goes to the headers object the request holds: when that is the
\* client's own object, the client's headers and every request holding it
\* change with it.
AuthBefore(c) ==
    /\ At(c, "Auth", "start")
    /\ LET r == calls[c]
           f == Top(r)
           headers == [r.request.headers EXCEPT !.entries = Put(@, KeyAuthorization, Token)]
           shared == r.request.headers.object = "config"
           written == [r EXCEPT !.request.headers = headers]
       IN /\ calls' = [d \in CallIds |->
                          IF d = c
                          THEN InvokeNext(SetTop(Logged(written, Event("auth", "Auth", f.pos, 0, NoVal)),
                                                 [f EXCEPT !.pc = "await"]), f.pos)
                          ELSE IF shared /\ calls[d].request.headers.object = "config"
                               THEN [calls[d] EXCEPT !.request.headers = headers]
                               ELSE calls[d]]
          /\ config' = IF shared THEN [config EXCEPT !.headers = headers.entries] ELSE config
    /\ UNCHANGED <<caller, middleware, cache, adapter, adapters, now>>

\* the promise of authMiddleware settles as next(req) did
AuthReturn(c) ==
    /\ At(c, "Auth", "await")
    /\ calls[c].ret.t # "none"
    /\ Upd(c, Pop(calls[c]))
    /\ UNCHANGED <<caller, config, middleware, cache, adapter, adapters, now>>

\* the composed middleware's promise settles as its executor's did
ComposeReturn(c) ==
    /\ At(c, "Compose", "await")
    /\ calls[c].ret.t # "none"
    /\ Upd(c, Pop(calls[c]))
    /\ UNCHANGED <<caller, config, middleware, cache, adapter, adapters, now>>

\* console.log('Response:', response); return response (skipped when next raised)
LogAfter(c) ==
    /\ \E n \in LoggerNames : At(c, n, "await")
    /\ calls[c].ret.t # "none"
    /\ LET r == calls[c]
           f == Top(r)
       IN Upd(c, IF r.ret.t = "return"
                 THEN Pop(Logged(r, Event("after", f.mw.name, f.pos, 0, NoVal)))
                 ELSE Pop(r))
    /\ UNCHANGED <<caller, config, middleware, cache, adapter, adapters, now>>

----------------------------------------------------------------------------
(* Retry middleware (middleware/retry.ts) *)

\* faulty variant: every error is retried
retryAlways(error) == TRUE

defaultRetryCondition(error) ==
    IF error.kind = "HttpError"
    THEN error.status >= 500 \/ error.status = 408 \/ error.status = 429
    ELSE TRUE

\* for (let attempt = 0; ...) try { return await next(request) }
RetryStart(c) ==
    /\ At(c, "Retry", "start")
    /\ LET r == calls[c]
           f == Top(r)
       IN Upd(c, InvokeNext(SetTop(r, [f EXCEPT !.pc = "await", !.attempt = 0]), f.pos))
    /\ UNCHANGED <<caller, config, middleware, cache, adapter, adapters, now>>

\* faulty variant: gives up one attempt early
LastAttemptEarly(attempt, retries) == attempt >= retries - 1

\* faulty variant: gives up one attempt late
LastAttemptLate(attempt, retries) == attempt = retries + 1

\* if (attempt === retries) throw lastError
LastAttempt(attempt, retries) == attempt = retries

\* faulty variant: the delay does not grow
calculateDelayConstant(attempt, baseDelay, backoff) == baseDelay

\* calculateDelay(attempt, baseDelay, backoff)
calculateDelay(attempt, baseDelay, backoff) ==
    IF backoff = "exponential" THEN baseDelay * (2 ^ attempt)
    ELSE baseDelay * (attempt + 1)

\* faulty variant: the callback gets the zero-based attempt
CallbackCalledZeroBased(r, f) ==
    IF f.mw.onRetry
    THEN Logged(r, Event("onRetry", "Retry", f.pos, f.attempt, r.ret))
    ELSE r

\* if (onRetry) onRetry(attempt + 1, lastError)
CallbackCalled(r, f) ==
    IF f.mw.onRetry
    THEN Logged(r, Event("onRetry", "Retry", f.pos, f.attempt + 1, r.ret))
    ELSE r

\* const delayTime = calculateDelay(...); await delay(delayTime): setTimeout
TimerSet(r, f) ==
    Logged(r, Event("timer", "Retry", f.pos,
                    calculateDelay(f.attempt, f.mw.delay, OrElse(f.mw.backoff, "exponential")),
                    NoVal))

\* `await next(request)` settled: return it, or run the catch block
RetryResult(c) ==
    /\ At(c, "Retry", "await")
    /\ calls[c].ret.t # "none"
    /\ LET r == calls[c]
           f == Top(r)
       IN IF r.ret.t = "return"
          THEN Upd(c, Pop(r))
          ELSE IF LastAttempt(f.attempt, f.mw.retries) \/ ~defaultRetryCondition(r.ret)
               THEN Upd(c, Pop(Logged(r, Event("rethrow", "Retry", f.pos, f.attempt, r.ret))))
               ELSE Upd(c, [SetTop(TimerSet(Logged(CallbackCalled(r, f),
                                                   Event("sleep", "Retry", f.pos, f.attempt, r.ret)),
                                            f),
                                   [f EXCEPT !.pc = "sleep", !.lastError = r.ret])
                              EXCEPT !.ret = NoVal])
    /\ UNCHANGED <<caller, config, middleware, cache, adapter, adapters, now>>

\* the delay timer fired: attempt++, then the next `await next(request)`
RetryWake(c) ==
    /\ At(c, "Retry", "sleep")
    /\ LET r == calls[c]
           f == Top(r)
       IN Upd(c, InvokeNext(SetTop(r, [f EXCEPT !.pc = "await", !.attempt = f.attempt + 1]),
                            f.pos))
    /\ UNCHANGED <<caller, config, middleware, cache, adapter, adapters, now>>

----------------------------------------------------------------------------
(* Cache middleware *)

Quote(s) == <<"\"">> \o s \o <<"\"">>

JsonValue(v) == IF v.t = "str" THEN Quote(v.s) ELSE v.s

\* JSON.stringify of an object
JsonStringify(obj) ==
    <<"{">>
    \o Join([i \in 1..Len(obj) |-> Quote(obj[i].k) \o <<":">> \o JsonValue(obj[i].v)], <<",">>)
    \o <<"}">>

MethodChars(m) ==
    CASE m = "get" -> <<"G", "E", "T">>
      [] m = "post" -> <<"P", "O", "S", "T">>
      [] m = "put" -> <<"P", "U", "T">>
      [] m = "patch" -> <<"P", "A", "T", "C", "H">>
      [] m = "delete" -> <<"D", "E", "L", "E", "T", "E">>
      [] m = "head" -> <<"H", "E", "A", "D">>
      [] OTHER -> <<"?">>

\* faulty variant: one key for every request
constantKey(request) == <<"k">>

defaultKeyGenerator(request) ==
    LET parts == <<MethodChars(request.method), request.url>>
                 \o (IF request.query # Undefined /\ Len(request.query) > 0
                     THEN <<JsonStringify(request.query)>> ELSE <<>>)
                 \o (IF request.body # Undefined
                     THEN <<JsonStringify(request.body)>> ELSE <<>>)
    IN Join(parts, <<"|">>)

\* faulty variant: every response is cacheable
shouldCacheAlways(request, response) == TRUE

\* faulty variant: the method test is wrong
shouldCachePost(request, response) ==
    request.method = "post" /\ response.status >= 200 /\ response.status < 300

\* Only cache successful GET responses
defaultShouldCache(request, response) ==
    request.method = "get" /\ response.status >= 200 /\ response.status < 300

Entries(store, key) == {e \in store : e.key = key}

\* faulty variant: keeps an entry one tick too long
ExpiredLate(entry, time) == time - entry.timestamp > entry.ttl + 1

\* Date.now() - entry.timestamp > entry.ttl
Expired(entry, time) == time - entry.timestamp > entry.ttl

\* MemoryCacheStorage.get at clock reading `time`: [found, data, store after the read]
StorageGet(store, key, time) ==
    IF Entries(store, key) = {}
    THEN [found |-> FALSE, data |-> NoVal, store |-> store]
    ELSE LET entry == CHOOSE e \in Entries(store, key) : TRUE
         IN IF Expired(entry, time)
            THEN [found |-> FALSE, data |-> NoVal, store |-> store \ {entry}]
            ELSE [found |-> TRUE, data |-> entry.data, store |-> store]

\* faulty variant: the entry already held for the key is kept beside the new one
StorageSetKeepOld(store, key, entry) ==
    store
    \cup {[key |-> key, data |-> entry.data, timestamp |-> entry.timestamp, ttl |-> entry.ttl]}

\* MemoryCacheStorage.set: Map.set replaces the entry of the key
StorageSet(store, key, entry) ==
    (store \ Entries(store, key))
    \cup {[key |-> key, data |-> entry.data, timestamp |-> entry.timestamp, ttl |-> entry.ttl]}

\* const cachedEntry = await storage.get(cacheKey); hit: return cachedEntry.data;
\* miss: const response = await next(request)
CacheLookup(c, time) ==
    /\ At(c, "Cache", "start")
    /\ now' = time
    /\ LET r == calls[c]
           f == Top(r)
           got == StorageGet(cache[f.pos], defaultKeyGenerator(r.request), time)
       IN /\ cache' = [cache EXCEPT ![f.pos] = got.store]
          /\ IF got.found
             THEN Upd(c, [Pop(Logged(r, Event("hit", "Cache", f.pos, time, got.data)))
                            EXCEPT !.ret = got.data])
             ELSE Upd(c, InvokeNext(SetTop(Logged(r, Event("miss", "Cache", f.pos, time, NoVal)),
                                           [f EXCEPT !.pc = "await"]), f.pos))
    /\ UNCHANGED <<caller, config, middleware, adapter, adapters>>

\* `await next(request)` settled: store the response if shouldCache, return it
CacheStore(c, time) ==
    /\ At(c, "Cache", "await")
    /\ calls[c].ret.t # "none"
    /\ LET r == calls[c]
           f == Top(r)
       IN IF r.ret.t = "return" /\ defaultShouldCache(r.request, r.ret)
          THEN /\ cache' = [cache EXCEPT ![f.pos] =
                               StorageSet(cache[f.pos], defaultKeyGenerator(r.request),
                                          [data |-> r.ret, timestamp |-> time,
                                           ttl |-> f.mw.ttl])]
               /\ now' = time
               /\ Upd(c, Pop(Logged(r, Event("store", "Cache", f.pos, time, r.ret))))
          ELSE /\ cache' = cache
               /\ now' = now
               /\ time = now
               /\ Upd(c, Pop(r))
    /\ UNCHANGED <<caller, config, middleware, adapter, adapters>>

----------------------------------------------------------------------------
(* Transport *)

OkStatuses == {200}
ErrorStatuses == {404, 408, 429, 500}

\* what the exchange primitive (fetch) does: a response, an abort, a failure
Exchanges ==
    {[k |-> "response", status |-> s, body |-> b] : s \in OkStatuses, b \in Bodies}
    \cup {[k |-> "response", status |-> s, body |-> <<>>] : s \in ErrorStatuses}
    \cup {[k |-> "abort", status |-> 0, body |-> <<>>],
          [k |-> "failure", status |-> 0, body |-> <<>>]}

\* response.ok
Ok(status) == status >= 200 /\ status <= 299

\* faulty variant: the status of the response is not looked at
FetchRequestUnchecked(x, id) ==
    CASE x.k = "response" -> Response(x.status, x.body, id)
      [] x.k = "abort" -> TimeoutError(id)
      [] OTHER -> NetworkError(id)

\* faulty variant: the adapter validates the body itself
FetchRequestValidating(x, id) ==
    CASE x.k = "response" /\ Ok(x.status) /\ Accepts(UserSchema, x.body) ->
             Response(x.status, x.body, id)
      [] x.k = "response" /\ Ok(x.status) /\ ~Accepts(UserSchema, x.body) ->
             ValidationError("response")
      [] x.k = "response" /\ ~Ok(x.status) -> HttpError(x.status, id)
      [] x.k = "abort" -> TimeoutError(id)
      [] OTHER -> NetworkError(id)

\* FetchAdapter.request on the exchange x, the id-th transport attempt of the call
FetchRequest(x, id) ==
    CASE x.k = "response" /\ Ok(x.status) -> Response(x.status, x.body, id)
      [] x.k = "response" /\ ~Ok(x.status) -> HttpError(x.status, id)
      [] x.k = "abort" -> TimeoutError(id)
      [] OTHER -> NetworkError(id)

\* AxiosAdapter.request on the exchange x: axios resolved with a response, or
\* rejected with an AxiosError that carries a response ("rejected"), a timeout
\* code ("abort") or no response ("failure"), or something else was thrown
AxiosRequest(x, id) ==
    CASE x.k = "response" /\ x.status >= 400 -> HttpError(x.status, id)
      [] x.k = "response" /\ x.status < 400 -> Response(x.status, x.body, id)
      [] x.k = "abort" -> TimeoutError(id)
      [] x.k = "rejected" -> HttpError(x.status, id)
      [] OTHER -> NetworkError(id)

\* adapter.request(context) of the handle createAdapter(type) made
AdapterRequest(type, x, id) ==
    IF type = "axios" THEN AxiosRequest(x, id) ELSE FetchRequest(x, id)

SupportedAdapters == {"fetch", "axios"}

\* the transport attempts the call has made
TransportCalls(r) == Len(SelectSeq(r.log, LAMBDA e : e.ev = "transport"))

\* executeHttpRequest: const adapter = await this.getAdapter()
GetAdapter(c) ==
    /\ At(c, "transport", "start")
    /\ LET r == calls[c]
           f == Top(r)
       IN IF adapter # 0
          THEN Upd(c, SetTop(r, [f EXCEPT !.pc = "request", !.handle = adapter]))
          ELSE IF config.adapter \in SupportedAdapters
               THEN Upd(c, SetTop(r, [f EXCEPT !.pc = "creating"]))
               ELSE Upd(c, [Pop(r) EXCEPT !.ret = AdapterLoadError])
    /\ UNCHANGED <<caller, config, middleware, cache, adapter, adapters, now>>

\* this.adapter = await createAdapter(...); return this.adapter
AdapterCreated(c) ==
    /\ At(c, "transport", "creating")
    /\ adapters' = adapters + 1
    /\ adapter' = adapters + 1
    /\ Upd(c, SetTop(calls[c], [Top(calls[c]) EXCEPT !.pc = "request", !.handle = adapters + 1]))
    /\ UNCHANGED <<caller, config, middleware, cache, now>>

\* return adapter.request(context)
TransportRequest(c, x) ==
    /\ At(c, "transport", "request")
    /\ LET r == calls[c]
           res == AdapterRequest(config.adapter, x, TransportCalls(r) + 1)
       IN Upd(c, [Pop(Logged(r, Event("transport", "transport", Top(r).pos, Top(r).handle, res)))
                    EXCEPT !.ret = res])
    /\ UNCHANGED <<caller, config, middleware, cache, adapter, adapters, now>>

\* Date.now() never goes back: the readings a call to it can return
Clock == now..MaxTime

----------------------------------------------------------------------------
(* Specifications *)

\* an InternalClientConfig for the base URL of the scenarios, with the default
\* timeout and retries
Config(validateReq, validateRes, adapterType) ==
    [baseUrl |-> BaseUrl, validateRequest |-> validateReq,
     validateResponse |-> validateRes, headers |-> <<>>, adapter |-> adapterType,
     timeout |-> 30000, retries |-> 0]

\* the ClientConfig object a caller writes; every property but baseUrl is
\* optional in the type, and JavaScript callers can leave baseUrl out as well
ClientConfig(baseUrl, validateReq, validateRes, adapterType, timeout, retries, mws) ==
    [baseUrl |-> baseUrl, validateRequest |-> validateReq, validateResponse |-> validateRes,
     adapter |-> adapterType, timeout |-> timeout, retries |-> retries, middleware |-> mws]

\* baseUrl.replace(/\/$/, '')
StripSlash(s) == IF s # <<>> /\ s[Len(s)] = "/" THEN SubSeq(s, 1, Len(s) - 1) ELSE s

\* ZodseiClient.normalizeConfig, for a config that has a baseUrl
normalizeConfig(cfg) ==
    [baseUrl |-> StripSlash(The(cfg.baseUrl)),
     validateRequest |-> OrElse(cfg.validateRequest, TRUE),
     validateResponse |-> OrElse(cfg.validateResponse, TRUE),
     headers |-> <<>>,
     adapter |-> OrElse(cfg.adapter, "fetch"),
     timeout |-> OrElse(cfg.timeout, 30000),
     retries |-> OrElse(cfg.retries, 0)]

\* what `new ZodseiClient(contract, config)` evaluates to
ClientObject == [NoVal EXCEPT !.t = "return"]

\* the caller before createClient.  passed, used: observations, the contents of
\* the middleware array when it was passed and the use() calls made since
NoClientYet(cfg) ==
    [config |-> cfg, client |-> NoVal, clients |-> 0, passed |-> <<>>, used |-> <<>>]

\* the caller whose createClient(contract, cfg) gave the client of `config`
\* and `middleware`: it wrote every property, and passed the array mws
Caller(cfg, mws) ==
    [config |-> ClientConfig(Some(cfg.baseUrl), Some(cfg.validateRequest),
                             Some(cfg.validateResponse), Some(cfg.adapter),
                             Some(cfg.timeout), Some(cfg.retries), mws),
     client |-> ClientObject, clients |-> 1,
     passed |-> OrElse(mws, <<>>), used |-> <<>>]

\* the client after createClient(contract, cfg) with middleware list mws
Constructed(cfgs, lists) ==
    /\ config \in cfgs
    /\ middleware \in lists
    /\ cache = [i \in 1..Len(middleware) |-> {}]
    /\ adapter = 0
    /\ adapters = 0
    /\ now = 0
    /\ caller = Caller(config, Some(middleware))

\* the state after createClient(contract, cfg): no endpoint method called yet
Created(cfgs, lists) ==
    /\ Constructed(cfgs, lists)
    /\ calls = [c \in CallIds |-> IdleCall]

\* the steps of call c once it has started
Step(c, exchanges) ==
    \/ LogBefore(c)
    \/ LogAfter(c)
    \/ \E time \in Clock : CacheLookup(c, time)
    \/ \E time \in Clock : CacheStore(c, time)
    \/ GetAdapter(c)
    \/ AdapterCreated(c)
    \/ \E x \in exchanges : TransportRequest(c, x)
    \/ Finish(c)

RetryStep(c) ==
    \/ RetryStart(c)
    \/ RetryResult(c)
    \/ RetryWake(c)

AllConfigs == {Config(a, b, "fetch") : a, b \in BOOLEAN}

\* Spec: one endpoint call on a client whose middleware list holds logging and
\* cache middleware, under every combination of the validation flags.
Init == Created(AllConfigs, SeqsUpTo({Logger("X"), Logger("Y"), Cache(1)}, MaxMw))

Next ==
    \/ \E name \in EndpointNames, data \in Inputs : CallEndpoint(1, name, data)
    \/ Step(1, Exchanges)

Spec == Init /\ [][Next]_vars

\* SpecRetry: one endpoint call on a client whose middleware list holds a retry
\* middleware; the adapter type may be one createAdapter does not know.
Retries(list) == {i \in 1..Len(list) : list[i].name = "Retry"}

RetryLists ==
    {l \in SeqsUpTo({Logger("X"), Cache(1)} \cup {Retry(n) : n \in 0..MaxRetries}, MaxMw) :
        Cardinality(Retries(l)) = 1}
    \cup {<<Retry(1), Retry(1)>>}

RetryInputs == {d \in Inputs : Get(d, KeyId) # ValB}

RetryExchanges == {x \in Exchanges : ~HasKey(x.body, KeyP)}

InitRetry ==
    Created({Config(TRUE, b, a) : b \in BOOLEAN, a \in {"fetch", "xhr"}}, RetryLists)

NextRetry ==
    \/ \E name \in EndpointNames, data \in RetryInputs : CallEndpoint(1, name, data)
    \/ Step(1, RetryExchanges)
    \/ RetryStep(1)

SpecRetry == InitRetry /\ [][NextRetry]_vars

\* SpecBackoff: one endpoint call on a client whose middleware list holds a
\* retry middleware with a delay, a backoff or none, and an onRetry callback
\* or none; the server answers 200, 404 or 500, or the exchange fails.
BackoffLists ==
    {<<RetryWith(n, d, b, o)>> \o after :
        n \in 0..MaxRetries,
        d \in {0, 1, 3},
        b \in {Absent, Some("linear"), Some("exponential")},
        o \in BOOLEAN,
        after \in {<<>>, <<Logger("X")>>}}

BackoffExchanges ==
    {x \in Exchanges : /\ x.status \in {0, 200, 404, 500}
                       /\ x.k # "abort"
                       /\ x.body \in {<<>>, <<[k |-> KeyId, v |-> ValA]>>}}

InitBackoff == Created({Config(TRUE, TRUE, "fetch")}, BackoffLists)

\* what the event loop runs once the call has started: continuations, the
\* exchange, the delay timer
BackoffStep ==
    \/ LogBefore(1)
    \/ LogAfter(1)
    \/ RetryStart(1)
    \/ RetryResult(1)
    \/ RetryWake(1)
    \/ GetAdapter(1)
    \/ AdapterCreated(1)
    \/ \E x \in BackoffExchanges : TransportRequest(1, x)
    \/ Finish(1)

NextBackoff ==
    \/ CallEndpoint(1, "getUser", UserA)
    \/ BackoffStep

SpecBackoff == InitBackoff /\ [][NextBackoff]_vars

\* every transport attempt terminates and timers fire
SpecBackoffFair == SpecBackoff /\ WF_vars(BackoffStep)

\* SpecCache: calls made one after the other on a client with one cache
\* middleware, while the clock advances; the server answers 200 or 500.
CacheExchanges == {x \in Exchanges : x.status \in {200, 500} /\ ~HasKey(x.body, KeyP)}

HasCache(list) == Cardinality({i \in 1..Len(list) : list[i].name = "Cache"}) = 1

CacheLists == {l \in SeqsUpTo({Logger("X"), Cache(1)}, 2) : HasCache(l)}

CacheInputs == {d \in Inputs : Get(d, KeyId) # ValBad}

InitCache == Created({Config(TRUE, TRUE, "fetch"), Config(FALSE, FALSE, "fetch")}, CacheLists)

NextCache ==
    \/ \E c \in CallIds, name \in EndpointNames, data \in CacheInputs :
          CallEndpoint(c, name, data)
    \/ \E c \in CallIds : Step(c, CacheExchanges)

SpecCache == InitCache /\ [][NextCache]_vars

\* SpecRequest: one call of any endpoint of the contract, with any of the
\* arguments below (Undefined: called without an argument), on a client
\* without middleware, under every combination of the validation flags.
RequestInputs ==
    { <<[k |-> KeyId, v |-> ValA]>>,
      <<[k |-> KeyId, v |-> ValA], [k |-> KeyP, v |-> Str(<<"1">>)]>>,
      <<[k |-> KeyP, v |-> Str(<<"1">>)], [k |-> KeyId, v |-> ValB]>>,
      <<[k |-> KeyId, v |-> ValBad], [k |-> KeyP, v |-> Str(<<"1">>)]>>,
      Undefined }

RequestExchanges == {x \in Exchanges : x.status \in {200, 404}}

InitRequest == Created(AllConfigs, {<<>>})

NextRequest ==
    \/ \E name \in AllEndpointNames, arg \in RequestInputs : CallEndpoint(1, name, arg)
    \/ GetAdapter(1)
    \/ AdapterCreated(1)
    \/ \E x \in RequestExchanges : TransportRequest(1, x)
    \/ Finish(1)

SpecRequest == InitRequest /\ [][NextRequest]_vars

\* SpecNested: a first call through a nested accessor path and a second call
\* through a top-level key, on a client with one logging middleware.
PropNames == DOMAIN Contract \cup DOMAIN UsersContract \cup DOMAIN AdminContract

\* the accessor paths client.a.b, client.a.b.c that lead to an endpoint method
AccessPaths ==
    {props \in SeqsUpTo(PropNames, 3) :
        /\ Len(props) > 1
        /\ Head(props) \in DOMAIN Contract
        /\ isNestedContract(Contract[Head(props)])
        /\ NestedGet(Contract[Head(props)], Tail(props)) # NoEndpoint}

InitNested == Created(AllConfigs, {<<Logger("X")>>})

NextNested ==
    \/ \E props \in AccessPaths, arg \in RequestInputs : CallNested(1, props, arg)
    \/ \E name \in AllEndpointNames, arg \in RequestInputs : CallEndpoint(2, name, arg)
    \/ \E c \in {1, 2} :
          \/ LogBefore(c)
          \/ LogAfter(c)
          \/ GetAdapter(c)
          \/ AdapterCreated(c)
          \/ \E x \in RequestExchanges : TransportRequest(c, x)
          \/ Finish(c)

SpecNested == InitNested /\ [][NextNested]_vars

\* SpecAdapter: one call on a client without middleware, with the fetch or the
\* axios adapter; the server answers with any status around the 400 boundary.
AdapterStatuses == {200, 304, 399, 400, 404}

AdapterBodies == {b \in Bodies : ~HasKey(b, KeyP)}

\* what the fetch primitive does, and what axios.request does on top of that
AdapterExchanges(type) ==
    {[k |-> "response", status |-> s, body |-> b] : s \in AdapterStatuses, b \in AdapterBodies}
    \cup {[k |-> "abort", status |-> 0, body |-> <<>>],
          [k |-> "failure", status |-> 0, body |-> <<>>]}
    \cup (IF type = "axios"
          THEN {[k |-> "rejected", status |-> s, body |-> <<>>] : s \in {304, 404}}
          ELSE {})

InitAdapter == Created({Config(TRUE, b, a) : b \in BOOLEAN, a \in SupportedAdapters}, {<<>>})

NextAdapter ==
    \/ \E name \in EndpointNames, arg \in Inputs : CallEndpoint(1, name, arg)
    \/ GetAdapter(1)
    \/ AdapterCreated(1)
    \/ \E x \in AdapterExchanges(config.adapter) : TransportRequest(1, x)
    \/ Finish(1)

SpecAdapter == InitAdapter /\ [][NextAdapter]_vars

\* faulty variant: the new middleware is put in front of the list
unshift(list, m) == <<m>> \o list

\* this.middleware.push(middleware)
push(list, m) == Append(list, m)

\* the endpoint methods called so far
Started == {c \in CallIds : calls[c].st # "idle"}

\* client.use(m): this.middlewareExecutor.use(m).  normalizeConfig and the
\* executor's constructor keep the reference to the array of config.middleware
\* when the caller supplied one, so the list pushed onto is the caller's array.
Use(m) ==
    /\ caller.client.t = "return"
    /\ Len(caller.used) < MaxMw
    /\ middleware' = push(middleware, m)
    /\ cache' = [i \in 1..Len(middleware') |-> IF i \in DOMAIN cache THEN cache[i] ELSE {}]
    /\ caller' = [caller EXCEPT
                     !.config.middleware = IF @ = Absent THEN Absent ELSE Some(middleware'),
                     !.used = Append(@, [mw |-> m, calls |-> Cardinality(Started)])]
    /\ UNCHANGED <<config, adapter, adapters, now, calls>>

\* createClient(contract, cfg) once more, with the config object of the first client
CreateAgain ==
    /\ caller.clients = 1
    /\ caller' = [caller EXCEPT !.clients = 2]
    /\ UNCHANGED <<config, middleware, cache, adapter, adapters, now, calls>>

\* the list of the second client's executor: the array of config.middleware
\* (`config.middleware ?? []`, not copied)
SecondMiddleware == OrElse(caller.config.middleware, <<>>)

\* SpecUse: a client built with logging middleware X, to which Y and Z are
\* added with use() before, between and during calls made one after the other;
\* the caller passed the list as an array, or passed no middleware at all.
InitUse ==
    /\ config = Config(TRUE, TRUE, "fetch")
    /\ middleware \in SeqsUpTo({Logger("X")}, MaxMw)
    /\ cache = [i \in 1..Len(middleware) |-> {}]
    /\ adapter = 0
    /\ adapters = 0
    /\ now = 0
    /\ caller \in {Caller(config, Some(middleware))}
                    \cup (IF middleware = <<>> THEN {Caller(config, Absent)} ELSE {})
    /\ calls = [c \in CallIds |-> IdleCall]

\* the server answers 200 with a valid body, or 500
UseExchanges == {x \in Exchanges : x.status \in {200, 500} /\ x.body \in {<<>>, <<[k |-> KeyId, v |-> ValA]>>}}

NextUse ==
    \/ \E m \in {Logger("Y"), Logger("Z")} : Use(m)
    \/ CreateAgain
    \/ \E c \in CallIds : CallEndpoint(c, "getUser", UserA)
    \/ \E c \in CallIds :
          \/ LogBefore(c)
          \/ LogAfter(c)
          \/ GetAdapter(c)
          \/ AdapterCreated(c)
          \/ \E x \in UseExchanges : TransportRequest(c, x)
          \/ Finish(c)

SpecUse == InitUse /\ [][NextUse]_vars

\* SpecUseLate: client.use(m) called while calls are in flight, on a client
\* whose list holds a middleware that awaits before it calls next (the cache's
\* `await storage.get`, the retry's `await delay`).

\* call c is not running, or is suspended at an await: only then can the
\* caller's code run.  A logging or retry middleware runs from its entry to
\* its first `await next(request)` without a break.
Suspended(c) ==
    IF calls[c].st # "running" \/ calls[c].stack = <<>> THEN TRUE
    ELSE Top(calls[c]).pc # "start" \/ Top(calls[c]).mw.name \in {"Cache", "transport"}

UseInFlight(m) ==
    /\ \A c \in CallIds : Suspended(c)
    /\ Use(m)

InitUseLate ==
    Created({Config(TRUE, TRUE, "fetch")}, {<<Cache(1)>>, <<Retry(1)>>, <<Logger("X")>>})

NextUseLate ==
    \/ UseInFlight(Logger("Y"))
    \/ \E c \in CallIds : CallEndpoint(c, "getUser", UserA)
    \/ \E c \in CallIds :
          \/ LogBefore(c)
          \/ LogAfter(c)
          \/ RetryStep(c)
          \/ \E time \in Clock : CacheLookup(c, time)
          \/ \E time \in Clock : CacheStore(c, time)
          \/ GetAdapter(c)
          \/ AdapterCreated(c)
          \/ \E x \in UseExchanges : TransportRequest(c, x)
          \/ Finish(c)

SpecUseLate == InitUseLate /\ [][NextUseLate]_vars

\* SpecHeaders: calls started together on a client with default headers and
\* a middleware that writes to request.headers.
HeaderDefaults == {<<>>, <<[k |-> <<"x">>, v |-> Str(<<"1">>)]>>}

InitHeaders ==
    Created({[Config(TRUE, TRUE, "fetch") EXCEPT !.headers = h] : h \in HeaderDefaults},
            {<<Auth>>, <<Logger("X"), Auth>>, <<Auth, Logger("X")>>, <<Logger("X")>>})

NextHeaders ==
    \/ \E c \in CallIds : CallConcurrently(c, "getUser", UserA)
    \/ \E c \in CallIds :
          \/ LogBefore(c)
          \/ LogAfter(c)
          \/ AuthBefore(c)
          \/ AuthReturn(c)
          \/ GetAdapter(c)
          \/ AdapterCreated(c)
          \/ \E x \in UseExchanges : TransportRequest(c, x)
          \/ Finish(c)

SpecHeaders == InitHeaders /\ [][NextHeaders]_vars

----------------------------------------------------------------------------
(* Composed middleware: createClient(contract, { middleware: [X, *)
(* composeMiddleware(A, B), Y] }) beside the client whose list has the same *)
(* middlewares spliced in *)

\* the argument lists of composeMiddleware: loggers, and compositions of a
\* logger or of nothing
ComposedLists ==
    SeqsUpTo({Logger("Y"), Logger("Z"), Compose(<<Logger("Z")>>), Compose(<<>>)}, 2)

\* [...before, composeMiddleware(...inner), ...after]
ComposeLists ==
    {before \o <<Compose(inner)>> \o after :
        before \in SeqsUpTo({Logger("X")}, MaxMw - 1),
        inner \in ComposedLists,
        after \in SeqsUpTo({Logger("X")}, MaxMw - 1)}

\* the list with every composition replaced by its arguments
RECURSIVE Spliced(_)
Spliced(list) ==
    IF list = <<>> THEN <<>>
    ELSE (IF Head(list).name = "Compose" THEN Spliced(Head(list).inner) ELSE <<Head(list)>>)
         \o Spliced(Tail(list))

InitCompose ==
    /\ config = Config(TRUE, TRUE, "fetch")
    /\ middleware \in ComposeLists \cup {Spliced(list) : list \in ComposeLists}
    /\ cache = [i \in 1..Len(middleware) |-> {}]
    /\ adapter = 0
    /\ adapters = 0
    /\ now = 0
    /\ caller = Caller(config, Some(middleware))
    /\ calls = [c \in CallIds |-> IdleCall]

NextCompose ==
    \/ \E c \in CallIds : CallEndpoint(c, "getUser", UserA)
    \/ \E c \in CallIds :
          \/ LogBefore(c)
          \/ LogAfter(c)
          \/ ComposeReturn(c)
          \/ GetAdapter(c)
          \/ AdapterCreated(c)
          \/ \E x \in UseExchanges : TransportRequest(c, x)
          \/ Finish(c)

SpecCompose == InitCompose /\ [][NextCompose]_vars

\* createClient(contract, cfg): new ZodseiClient(contract, cfg).  The
\* constructor normalizes the config, builds the executor over
\* this.config.middleware and returns the Proxy; reading baseUrl.replace of a
\* config without baseUrl throws a TypeError.
CreateClient ==
    /\ caller.client.t = "none"
    /\ IF caller.config.baseUrl = Absent
       THEN /\ caller' = [caller EXCEPT !.client = Raise("TypeError", 0, "", 0)]
            /\ UNCHANGED <<config, middleware, cache, adapter>>
       ELSE /\ config' = normalizeConfig(caller.config)
            /\ middleware' = OrElse(caller.config.middleware, <<>>)
            /\ cache' = [i \in 1..Len(middleware') |-> {}]
            /\ adapter' = 0
            /\ caller' = [caller EXCEPT !.client = ClientObject, !.clients = 1,
                                        !.passed = middleware']
    /\ UNCHANGED <<adapters, now, calls>>

\* SpecCreate: createClient with the configs a caller may write: base URL
\* absent, empty, without a scheme, or absolute; timeout and retries absent,
\* negative, zero or positive; with and without a middleware array.
CreateUrls ==
    {Absent, Some(<<>>), Some(<<"h">>), Some(<<"h", ":", "/", "/", "a">>),
     Some(<<"h", ":", "/", "/", "a", "/">>)}

CreateNumbers == {Absent, Some(-1), Some(0), Some(1)}

CreateConfigs ==
    {ClientConfig(url, Absent, Absent, Absent, timeout, retries, mws) :
        url \in CreateUrls, timeout \in CreateNumbers, retries \in CreateNumbers,
        mws \in {Absent, Some(<<>>), Some(<<Logger("X")>>)}}

InitCreate ==
    /\ caller \in {NoClientYet(cfg) : cfg \in CreateConfigs}
    /\ config = Config(TRUE, TRUE, "fetch")
    /\ middleware = <<>>
    /\ cache = <<>>
    /\ adapter = 0
    /\ adapters = 0
    /\ now = 0
    /\ calls = [c \in CallIds |-> IdleCall]

NextCreate == CreateClient

SpecCreate == InitCreate /\ [][NextCreate]_vars

\* SpecRace: calls started together on a client without middleware.
RaceExchanges == {x \in Exchanges : x.status \in {200, 500} /\ ~HasKey(x.body, KeyP)}

InitRace == Created({Config(TRUE, TRUE, "fetch")}, {<<>>})

NextRace ==
    \/ \E c \in CallIds, name \in EndpointNames, arg \in CacheInputs :
          CallConcurrently(c, name, arg)
    \/ \E c \in CallIds :
          \/ GetAdapter(c)
          \/ AdapterCreated(c)
          \/ \E x \in RaceExchanges : TransportRequest(c, x)
          \/ Finish(c)

SpecRace == InitRace /\ [][NextRace]_vars

\* SpecParallel: calls started together on a client with logging middleware.
InitParallel ==
    Created({Config(TRUE, TRUE, "fetch")}, SeqsUpTo({Logger("X"), Logger("Y")}, MaxMw))

\* the two calls of Promise.all([client.getUser(a), client.getUser(b)])
ParallelCalls == {1, 2}

NextParallel ==
    \/ \E c \in ParallelCalls, arg \in CacheInputs : CallConcurrently(c, "getUser", arg)
    \/ \E c \in ParallelCalls :
          \/ LogBefore(c)
          \/ LogAfter(c)
          \/ GetAdapter(c)
          \/ AdapterCreated(c)
          \/ \E x \in RaceExchanges : TransportRequest(c, x)
          \/ Finish(c)

SpecParallel == InitParallel /\ [][NextParallel]_vars

\* SpecShared: calls started together on a client with one cache middleware,
\* while the clock advances; the server answers 200 with either body, or 500.
InitShared == Created({Config(TRUE, TRUE, "fetch")}, {<<Cache(1)>>})

NextShared ==
    \/ \E c \in ParallelCalls, name \in EndpointNames, arg \in CacheInputs :
          CallConcurrently(c, name, arg)
    \/ \E c \in ParallelCalls :
          \/ \E time \in Clock : CacheLookup(c, time)
          \/ \E time \in Clock : CacheStore(c, time)
          \/ GetAdapter(c)
          \/ AdapterCreated(c)
          \/ \E x \in RaceExchanges : TransportRequest(c, x)
          \/ Finish(c)

SpecShared == InitShared /\ [][NextShared]_vars

\* SpecParams: the exported path utility separateParams applied to a path
\* template and a data object (or null, or undefined).
ParamPaths ==
    { <<"/", "u">>,
      <<"/", "u", "/", ":", "i", "d">>,
      <<"/", ":", "p", "/", ":", "i", "d">>,
      <<"/", "u", "/", ":", "i", "d", "/", "x">> }

ParamKeys == {KeyId, KeyP, <<"x">>}

ParamValues == {ValA, Num(<<"1">>)}

\* objects: no key twice
ParamObjects ==
    {obj \in SeqsUpTo([k : ParamKeys, v : ParamValues], 3) :
        \A i, j \in 1..Len(obj) : obj[i].k = obj[j].k => i = j}

ParamData == ParamObjects \cup {Undefined, Null}

\* separateParams(path, data), called by the program itself
SeparateParams(c) ==
    /\ calls[c].st = "idle"
    /\ calls[c].via = <<"separateParams">>
    /\ Upd(c, [calls[c] EXCEPT !.st = "done",
                               !.outcome = [NoVal EXCEPT !.t = "return",
                                   !.data = separateParams(calls[c].target.path, calls[c].arg)]])
    /\ UNCHANGED <<caller, config, middleware, cache, adapter, adapters, now>>

ParamsCall(path, data) ==
    [IdleCall EXCEPT !.via = <<"separateParams">>, !.arg = data,
                     !.target = [NoEndpoint EXCEPT !.path = path]]

InitParams ==
    /\ Constructed({Config(TRUE, TRUE, "fetch")}, {<<>>})
    /\ \E path \in ParamPaths, data \in ParamData :
          calls = [c \in CallIds |-> IF c = 1 THEN ParamsCall(path, data) ELSE IdleCall]

NextParams == SeparateParams(1)

SpecParams == InitParams /\ [][NextParams]_vars

\* SpecReplace: the exported path utility replacePath applied to a path
\* template and a params object.
ReplacePaths ==
    { <<"/", "u", "/", ":", "i", "d">>,
      <<"/", ":", "p", "/", ":", "i", "d">>,
      <<"/", ":", "i", "d", "/", ":", "i", "d">>,
      <<"/", ":", "i", "d", "/", "x", "/", ":", "i", "d">>,
      <<"/", ":", "i", "d", "/", ":", "i", "d", "x">>,
      <<"/", ":", "i", "d", "x", "/", ":", "i", "d">> }

KeyIdx == <<"i", "d", "x">>

ReplaceValues == {<<"a">>, <<"1">>, <<"a", "/", "b">>}

\* Record<string, string>: no key twice
ReplaceParams ==
    {obj \in SeqsUpTo([k : {KeyId, KeyIdx, KeyP}, v : ReplaceValues], 2) :
        \A i, j \in 1..Len(obj) : obj[i].k = obj[j].k => i = j}

\* replacePath(path, params), called by the program itself
ReplacePath(c) ==
    /\ calls[c].st = "idle"
    /\ calls[c].via = <<"replacePath">>
    /\ Upd(c, [calls[c] EXCEPT !.st = "done",
                               !.outcome = [NoVal EXCEPT !.t = "return",
                                   !.data = replacePath(calls[c].target.path, calls[c].arg)]])
    /\ UNCHANGED <<caller, config, middleware, cache, adapter, adapters, now>>

ReplaceCall(path, params) ==
    [IdleCall EXCEPT !.via = <<"replacePath">>, !.arg = params,
                     !.target = [NoEndpoint EXCEPT !.path = path]]

InitReplace ==
    /\ Constructed({Config(TRUE, TRUE, "fetch")}, {<<>>})
    /\ \E path \in ReplacePaths, params \in ReplaceParams :
          calls = [c \in CallIds |-> IF c = 1 THEN ReplaceCall(path, params) ELSE IdleCall]

NextReplace == ReplacePath(1)

SpecReplace == InitReplace /\ [][NextReplace]_vars

----------------------------------------------------------------------------
(* Schema introspection: client.$schema (SchemaExtractor) *)

\* Object.keys(this.contract)
ContractKeys ==
    <<"getUser", "createUser", "findUsers", "getItem", "listUsers", "updateUser",
      "patchUser", "deleteUser", "ping", "users">>

\* SchemaExtractor.isEndpointDefinition: 'path', 'method', 'request' and
\* 'response' in value.  An endpoint that omits `request` (`response`) is the
\* one whose request (response) is NoSchema.
SchemaExtractor_isEndpointDefinition(value) ==
    /\ {"path", "method"} \subseteq DOMAIN value
    /\ value.request.present
    /\ value.response.present

\* SchemaExtractor.isNestedContract
SchemaExtractor_isNestedContract(value) == ~SchemaExtractor_isEndpointDefinition(value)

Returned_(value) == [NoVal EXCEPT !.t = "return", !.data = value]

\* throw new Error(`Endpoint "${String(path)}" not found or is not a valid endpoint`)
EndpointNotFound(path) ==
    [NoVal EXCEPT !.t = "throw", !.kind = "Error",
                  !.data = <<"Endpoint \"", path, "\" not found or is not a valid endpoint">>]

\* SchemaExtractor.getEndpoint(path)
getEndpoint(path) ==
    IF path \in DOMAIN Contract /\ SchemaExtractor_isEndpointDefinition(Contract[path])
    THEN Returned_(Contract[path])
    ELSE EndpointNotFound(path)

\* getSchemaDescription: the field names of an object schema, 'unknown' when
\* the schema cannot be introspected
getSchemaDescription(schema) ==
    IF schema.present
    THEN [i \in 1..Len(schema.fields) |-> schema.fields[i].k]
    ELSE <<"unknown">>

\* getRequestSchema, getResponseSchema, getEndpointSchemas, describeEndpoint:
\* each starts with this.getEndpoint(path)
SchemaLookup(op, path) ==
    LET found == getEndpoint(path)
        endpoint == found.data
    IN IF found.t = "throw" THEN found
       ELSE CASE op = "getEndpoint" -> found
              [] op = "getRequestSchema" -> Returned_(endpoint.request)
              [] op = "getResponseSchema" -> Returned_(endpoint.response)
              [] op = "getEndpointSchemas" ->
                     Returned_([request |-> endpoint.request, response |-> endpoint.response,
                                endpoint |-> endpoint])
              [] OTHER ->
                     Returned_([path |-> endpoint.path, method |-> endpoint.method,
                                requestSchema |-> endpoint.request,
                                responseSchema |-> endpoint.response,
                                requestType |-> getSchemaDescription(endpoint.request),
                                responseType |-> getSchemaDescription(endpoint.response)])

\* Object.keys(this.contract).filter((key) => this.isEndpointDefinition(this.contract[key]))
getEndpointPaths ==
    SelectSeq(ContractKeys, LAMBDA key : SchemaExtractor_isEndpointDefinition(Contract[key]))

SchemaOps ==
    {"getEndpoint", "getRequestSchema", "getResponseSchema", "getEndpointSchemas",
     "describeEndpoint"}

\* the keys callers ask for: those of the contract, of its groups, and an unknown one
SchemaKeys == PropNames \cup {"nonExistent"}

\* client.$schema[op](path): synchronous, the outcome is there at once
SchemaQuery(c, op, path) ==
    /\ calls[c].st = "idle"
    /\ \A d \in CallIds : d < c => calls[d].st = "done"
    /\ Upd(c, [calls[c] EXCEPT !.st = "done", !.via = <<"$schema", op>>, !.endpoint = path,
                               !.outcome = SchemaLookup(op, path)])
    /\ UNCHANGED <<caller, config, middleware, cache, adapter, adapters, now>>

\* client.$schema.getEndpointPaths()
SchemaPaths(c) ==
    /\ calls[c].st = "idle"
    /\ \A d \in CallIds : d < c => calls[d].st = "done"
    /\ Upd(c, [calls[c] EXCEPT !.st = "done", !.via = <<"$schema", "getEndpointPaths">>,
                               !.outcome = Returned_(getEndpointPaths)])
    /\ UNCHANGED <<caller, config, middleware, cache, adapter, adapters, now>>

\* SpecSchema: schema queries made one after the other on one client
InitSchema == Created({Config(TRUE, TRUE, "fetch")}, {<<>>})

NextSchema ==
    \/ \E c \in CallIds, op \in SchemaOps, path \in SchemaKeys : SchemaQuery(c, op, path)
    \/ \E c \in CallIds : SchemaPaths(c)

SpecSchema == InitSchema /\ [][NextSchema]_vars

----------------------------------------------------------------------------
(* Observations used by the properties *)

Done(c) == calls[c].st = "done"

EventsOf(r, kinds) == SelectSeq(r.log, LAMBDA e : e.ev \in kinds)

\* the results of the transport attempts of a call, in order
Attempts(r) == [i \in 1..Len(EventsOf(r, {"transport"})) |-> EventsOf(r, {"transport"})[i].res]

Names(list) == {list[i].name : i \in 1..Len(list)}

InvalidRequest(r) ==
    /\ Contract[r.endpoint].request.present
    /\ ~Accepts(Contract[r.endpoint].request, r.data)

----------------------------------------------------------------------------
(* Properties of Spec *)

\* C1: with validateRequest enabled, a call whose data fails the endpoint's
\* request validator is rejected with a ValidationError of type 'request', and
\* no middleware and no transport ran for it: its log and its stack are empty.
C1_RequestValidation ==
    \A c \in CallIds :
        (calls[c].st # "idle" /\ config.validateRequest /\ InvalidRequest(calls[c]))
        => /\ Done(c)
           /\ calls[c].outcome = ValidationError("request")
           /\ calls[c].log = <<>>
           /\ calls[c].stack = <<>>

C1_Witness ==
    /\ Done(1)
    /\ middleware # <<>>
    /\ config.validateRequest
    /\ InvalidRequest(calls[1])
    /\ calls[1].outcome.kind = "ValidationError"

\* the call had an exchange that succeeded with a body its response validator rejects
BadBodyReceived(r) ==
    \E i \in 1..Len(Attempts(r)) :
        /\ Attempts(r)[i].t = "return"
        /\ ~Accepts(Contract[r.endpoint].response, Attempts(r)[i].data)

\* C2: with validateResponse enabled and no retry middleware, a call whose
\* exchange succeeded with a body violating the response validator is rejected
\* with a ValidationError of type 'response' after exactly one transport call.
C2_ResponseValidation ==
    \A c \in CallIds :
        (Done(c) /\ config.validateResponse /\ "Retry" \notin Names(middleware)
            /\ Contract[calls[c].endpoint].response.present /\ BadBodyReceived(calls[c]))
        => /\ calls[c].outcome = ValidationError("response")
           /\ Len(Attempts(calls[c])) = 1

C2_Witness ==
    /\ Done(1)
    /\ config.validateResponse
    /\ BadBodyReceived(calls[1])
    /\ calls[1].outcome.type = "response"
    /\ Len(middleware) = MaxMw

\* what a middleware or the transport was seen doing, without the bookkeeping
Seen(r) ==
    LET es == EventsOf(r, {"before", "after", "transport"})
    IN [i \in 1..Len(es) |-> <<es[i].ev, es[i].mw, es[i].pos>>]

Befores(list) == [i \in 1..Len(list) |-> <<"before", list[i].name, i>>]

Afters(list) ==
    [i \in 1..Len(list) |-> <<"after", list[Len(list) + 1 - i].name, Len(list) + 1 - i>>]

OnlyLoggers(list) == Names(list) \subseteq LoggerNames

\* C3: when every middleware of the list calls next exactly once (logging
\* middleware), the log of a finished call is the before-logic in list order,
\* then the transport once, then the after-logic in reverse list order (the
\* after-logic runs only when the transport returned a response).
C3_OnionOrder ==
    \A c \in CallIds :
        (Done(c) /\ OnlyLoggers(middleware) /\ calls[c].log # <<>>)
        => LET r == calls[c]
               transport == <<<<"transport", "transport", Len(middleware) + 1>>>>
           IN /\ Len(Attempts(r)) = 1
              /\ Seen(r) = Befores(middleware) \o transport
                           \o (IF Attempts(r)[1].t = "return" THEN Afters(middleware) ELSE <<>>)

C3_Witness ==
    /\ Done(1)
    /\ middleware = <<Logger("X"), Logger("Y")>>
    /\ Seen(calls[1]) = << <<"before", "X", 1>>, <<"before", "Y", 2>>,
                           <<"transport", "transport", 3>>,
                           <<"after", "Y", 2>>, <<"after", "X", 1>> >>

----------------------------------------------------------------------------
(* Properties of SpecRetry *)

\* the error classes the retry contract names as retryable: network-level
\* failures (a timeout included) and HttpError with status >= 500, 408 or 429
Retryable(v) ==
    /\ v.t = "throw"
    /\ \/ v.kind \in {"NetworkError", "TimeoutError"}
       \/ v.kind = "HttpError" /\ (v.status >= 500 \/ v.status \in {408, 429})

\* the positions of the retry middleware in the list
RetryAt == {i \in 1..Len(middleware) : middleware[i].name = "Retry"}

OneRetry == Cardinality(RetryAt) = 1

\* the retries option of the only retry middleware of the list
N == middleware[CHOOSE i \in RetryAt : TRUE].retries

\* the `next` invocations made by the middleware at position pos
NextsFrom(r, pos) == SelectSeq(r.log, LAMBDA e : e.ev = "next" /\ e.pos = pos)

\* C4: every invocation of `next` by the middleware at position i, repeated
\* invocations included, runs the middleware at position i+1 (the transport
\* after the last one); none skips a middleware registered after the caller.
C4_NextRunsSuccessor ==
    \A c \in CallIds :
        \A j \in 1..Len(calls[c].log) :
            calls[c].log[j].ev = "next" => calls[c].log[j].to = calls[c].log[j].pos + 1

\* the first i-1 attempts raised retryable errors and the i-th succeeded
FailsThenSucceeds(h, i) ==
    /\ i \in 1..Len(h)
    /\ h[i].t = "return"
    /\ \A j \in 1..(i - 1) : Retryable(h[j])

AllRetryable(h) == h # <<>> /\ \A j \in 1..Len(h) : Retryable(h[j])

\* what the caller gets for a response body: the parsed body when response
\* validation is on, the body itself otherwise
Delivered(r, body) ==
    IF config.validateResponse /\ Contract[r.endpoint].response.present
    THEN Parse(Contract[r.endpoint].response, body)
    ELSE body

BodyPasses(r, body) ==
    config.validateResponse /\ Contract[r.endpoint].response.present
        => Accepts(Contract[r.endpoint].response, body)

\* C5: with one retryMiddleware({retries: N}): a finished call never stopped
\* while all its attempts, fewer than N+1, had raised retryable errors; and
\* when the transport raised retryable errors on its first k <= N attempts and
\* then succeeded, the transport was invoked exactly k+1 times and the call
\* resolved with the successful response.
C5_RetryUntilSuccess ==
    \A c \in CallIds :
        (Done(c) /\ OneRetry)
        => LET r == calls[c]
               h == Attempts(r)
           IN /\ AllRetryable(h) => Len(h) = N + 1
              /\ \A i \in 1..Len(h) :
                    (i <= N + 1 /\ FailsThenSucceeds(h, i))
                    => /\ Len(h) = i
                       /\ BodyPasses(r, h[i].data)
                          => /\ r.outcome.t = "return"
                             /\ r.outcome.data = Delivered(r, h[i].data)

C5_Witness ==
    /\ Done(1)
    /\ OneRetry
    /\ N = 1
    /\ Len(Attempts(calls[1])) = 2
    /\ Attempts(calls[1])[1].kind = "HttpError"
    /\ Attempts(calls[1])[1].status = 500
    /\ Attempts(calls[1])[2].t = "return"
    /\ calls[1].outcome.t = "return"

ClientErrorNotRetried(v) ==
    /\ v.t = "throw"
    /\ v.kind = "HttpError"
    /\ v.status >= 400 /\ v.status <= 499
    /\ v.status \notin {408, 429}

\* C6: with the default retry predicate and retries >= 1, a transport that
\* answers with a client error status other than 408 and 429 is invoked
\* exactly once, and the call rejects with the HttpError carrying that status.
C6_ClientErrorOnce ==
    \A c \in CallIds :
        LET h == Attempts(calls[c])
        IN (OneRetry /\ N >= 1 /\ h # <<>> /\ ClientErrorNotRetried(h[1]))
           => /\ Len(h) = 1
              /\ Done(c) => calls[c].outcome = h[1]

C6_Witness ==
    /\ Done(1)
    /\ OneRetry
    /\ N = MaxRetries
    /\ Len(Attempts(calls[1])) = 1
    /\ calls[1].outcome = HttpError(404, 1)

\* C7: a retry middleware with retries = N invokes `next` at most N+1 times in
\* one call; when all N+1 attempts raised retryable errors the call rejects
\* with the error of the last attempt itself.
C7_AtMostNPlusOne ==
    \A c \in CallIds :
        /\ \A i \in RetryAt : Len(NextsFrom(calls[c], i)) <= middleware[i].retries + 1
        /\ (Done(c) /\ OneRetry /\ AllRetryable(Attempts(calls[c]))
                /\ Len(Attempts(calls[c])) = N + 1)
           => calls[c].outcome = Attempts(calls[c])[N + 1]

C7_Witness ==
    /\ Done(1)
    /\ OneRetry
    /\ N = MaxRetries
    /\ Len(NextsFrom(calls[1], CHOOSE i \in RetryAt : TRUE)) = N + 1
    /\ AllRetryable(Attempts(calls[1]))
    /\ calls[1].outcome = Attempts(calls[1])[N + 1]
    /\ calls[1].outcome # Attempts(calls[1])[1]

\* C8: with the default retry predicate, an error raised below the retry
\* middleware is retried if and only if it is a network error or an HttpError
\* with status >= 500, 408 or 429; any other error is re-raised after a single
\* attempt.  (A retry is a "sleep" event; "rethrow" before the last attempt is
\* the predicate's refusal.)
C8_RetryIffRetryable ==
    \A c \in CallIds :
        \A j \in 1..Len(calls[c].log) :
            LET e == calls[c].log[j]
            IN /\ e.ev = "sleep" => Retryable(e.res)
               /\ (e.ev = "rethrow" /\ e.to < middleware[e.pos].retries) => ~Retryable(e.res)

\* C9: on a client with retry middleware a validation failure causes no
\* additional transport attempt: a request validation failure leaves the log
\* empty; no middleware ever receives a ValidationError; no transport attempt
\* follows a successful one; and a response ValidationError comes out only
\* after the chain returned the response of the last attempt.
C9_ValidationNotRetried ==
    \A c \in CallIds :
        LET r == calls[c]
            h == Attempts(r)
        IN RetryAt # {}
           => /\ r.ret.kind # "ValidationError"
              /\ \A j \in 1..Len(r.log) : r.log[j].res.kind # "ValidationError"
              /\ \A i \in 1..Len(h) : h[i].t = "return" => i = Len(h)
              /\ (Done(c) /\ r.outcome = ValidationError("request")) => r.log = <<>>
              /\ (Done(c) /\ r.outcome = ValidationError("response"))
                 => /\ h # <<>>
                    /\ h[Len(h)].t = "return"
                    /\ ~Accepts(Contract[r.endpoint].response, h[Len(h)].data)

C9_Witness ==
    /\ Done(1)
    /\ OneRetry
    /\ N = MaxRetries
    /\ calls[1].outcome = ValidationError("response")
    /\ Len(Attempts(calls[1])) = 2
    /\ Attempts(calls[1])[1].kind = "NetworkError"

----------------------------------------------------------------------------
(* Properties of SpecCache *)

\* the clock readings the cache middleware took during a call
Readings(r, kinds) == {r.log[j].to : j \in {i \in 1..Len(r.log) : r.log[i].ev \in kinds}}

\* every entry call 1 stored is younger than ttl at every lookup of call 2
WithinTtl ==
    \A i \in 1..Len(middleware) :
        middleware[i].name = "Cache"
        => \A t1 \in Readings(calls[1], {"store"}), t2 \in Readings(calls[2], {"hit", "miss"}) :
               t2 - t1 < middleware[i].ttl

AllSucceeded(h) == \A i \in 1..Len(h) : h[i].t = "return"

SameGetCall ==
    /\ Done(1) /\ Done(2)
    /\ calls[1].endpoint = calls[2].endpoint
    /\ calls[1].data = calls[2].data
    /\ toUpperCase(Contract[calls[1].endpoint].method) = "GET"

\* C10: with a cache middleware whose ttl is longer than the time between the
\* calls, two sequential calls of the same GET endpoint with identical
\* arguments, served by a transport that succeeds, have equal results and the
\* transport was invoked exactly once in total.
C10_CacheHit ==
    (SameGetCall /\ WithinTtl
        /\ AllSucceeded(Attempts(calls[1])) /\ AllSucceeded(Attempts(calls[2])))
    => /\ calls[1].outcome = calls[2].outcome
       /\ Len(Attempts(calls[1])) + Len(Attempts(calls[2])) = 1

C10_Witness ==
    /\ SameGetCall /\ WithinTtl
    /\ Len(Attempts(calls[1])) = 1
    /\ AllSucceeded(Attempts(calls[1]))
    /\ calls[1].outcome.t = "return"
    /\ calls[2].outcome = calls[1].outcome
    /\ \E j \in 1..Len(calls[2].log) : calls[2].log[j].ev = "hit"
    /\ Attempts(calls[2]) = <<>>

----------------------------------------------------------------------------
(* Further properties of SpecCache *)

CacheAt == {i \in 1..Len(middleware) : middleware[i].name = "Cache"}

EventsAt(r, kinds, pos) == SelectSeq(r.log, LAMBDA e : e.ev \in kinds /\ e.pos = pos)

\* the middleware at position pos has no activation left in the call
Returned(r, pos) == \A i \in 1..Len(r.stack) : r.stack[i].pos # pos

\* the response was a successful answer to a GET request
CacheableByContract(r, v) ==
    /\ v.t = "return"
    /\ r.request.method = "get"
    /\ v.status >= 200 /\ v.status <= 299

\* an earlier call made the same request and its transport returned v
ServedBefore(c, v) ==
    \E d \in CallIds :
        /\ d < c
        /\ calls[d].request = calls[c].request
        /\ \E i \in 1..Len(Attempts(calls[d])) : Attempts(calls[d])[i] = v

\* C11: when the cache middleware finds a live entry it returns the response
\* stored for that request without calling next: nothing after it, and no
\* transport, runs for the call.  When it finds none it calls next exactly
\* once, and a cacheable response is in the store by the time the middleware
\* has returned it.
C11_HitSkipsNext ==
    \A c \in CallIds : \A p \in CacheAt :
        LET r == calls[c]
            hits == EventsAt(r, {"hit"}, p)
            misses == EventsAt(r, {"miss"}, p)
        IN /\ hits # <<>>
              => /\ NextsFrom(r, p) = <<>>
                 /\ \A j \in 1..Len(r.log) : r.log[j].pos <= p
                 /\ Attempts(r) = <<>>
                 /\ ServedBefore(c, hits[1].res)
                 /\ Done(c) /\ ~config.validateResponse => r.outcome.data = hits[1].res.data
           /\ misses # <<>>
              => /\ Len(NextsFrom(r, p)) = 1
                 /\ (Returned(r, p) /\ Attempts(r) # <<>>
                        /\ CacheableByContract(r, Attempts(r)[1]))
                    => /\ EventsAt(r, {"store"}, p) # <<>>
                       /\ EventsAt(r, {"store"}, p)[1].res = Attempts(r)[1]
                       /\ r.st = "running"
                          => \E e \in cache[p] : e.data = Attempts(r)[1]

C11_Witness ==
    /\ Done(1) /\ Done(2)
    /\ middleware = <<Cache(1), Logger("X")>>
    /\ EventsAt(calls[1], {"miss"}, 1) # <<>>
    /\ EventsAt(calls[1], {"store"}, 1) # <<>>
    /\ EventsAt(calls[2], {"hit"}, 1) # <<>>
    /\ Len(calls[2].log) = 2

\* the event a step appends first to the log of call c (none: ev = "")
Appended(c) ==
    IF Len(calls'[c].log) > Len(calls[c].log)
    THEN calls'[c].log[Len(calls[c].log) + 1]
    ELSE Event("", "", 0, 0, NoVal)

\* the entries the store at position p holds for the request of call c
Held(c, p) == {e \in cache[p] : e.key = defaultKeyGenerator(calls[c].request)}

\* a read of the store at position p by call c, at clock reading e.to
ReadIsLazyEviction(c, p) ==
    LET e == Appended(c)
    IN (e.ev \in {"hit", "miss"} /\ e.pos = p)
       => /\ e.ev = "hit"
             <=> \E x \in Held(c, p) : e.to - x.timestamp <= x.ttl
          /\ e.ev = "hit"
             => /\ \E x \in Held(c, p) : e.res = x.data
                /\ cache' = cache
          /\ e.ev = "miss"
             => /\ \A x \in Held(c, p) : e.to - x.timestamp > x.ttl
                /\ {x \in cache'[p] : x.key = defaultKeyGenerator(calls[c].request)} = {}
                /\ \A x \in cache[p] \ Held(c, p) : x \in cache'[p]

\* a call that read an expired (or no) entry went to the transport again
MissReachesTransport ==
    \A c \in CallIds : \A p \in CacheAt :
        (Done(c) /\ EventsAt(calls[c], {"miss"}, p) # <<>>) => Len(Attempts(calls[c])) = 1

\* C12: a read of the cache store returns an entry exactly when
\* now - timestamp <= ttl for it, unchanged; an entry with now - timestamp > ttl
\* is reported absent and removed by that same read, and the call that made
\* the read invokes the transport again.
C12_LazyEviction ==
    /\ [][\A c \in CallIds : \A p \in CacheAt : ReadIsLazyEviction(c, p)]_vars
    /\ []MissReachesTransport

\* the second call found the first call's entry expired and was served by the transport
C12_Witness ==
    /\ Done(1) /\ Done(2)
    /\ calls[1].request = calls[2].request
    /\ \E p \in CacheAt :
          /\ EventsAt(calls[1], {"store"}, p) # <<>>
          /\ EventsAt(calls[2], {"miss"}, p) # <<>>
          /\ EventsAt(calls[2], {"miss"}, p)[1].to - EventsAt(calls[1], {"store"}, p)[1].to
                > middleware[p].ttl
    /\ Len(Attempts(calls[2])) = 1


StoreEvents(r) == EventsOf(r, {"store"})

\* the entry was written by a call for a GET request, with a 2xx response
WrittenForGet(e) ==
    /\ e.data.t = "return"
    /\ e.data.status >= 200 /\ e.data.status <= 299
    /\ \E c \in CallIds :
          /\ toUpperCase(calls[c].request.method) = "GET"
          /\ \E j \in 1..Len(StoreEvents(calls[c])) :
                /\ StoreEvents(calls[c])[j].res = e.data
                /\ StoreEvents(calls[c])[j].to = e.timestamp

\* C13: with the default cacheability predicate every entry of a cache store
\* was written for a GET request whose response status was in 200..299; a call
\* with another method stores nothing, and a call whose downstream chain raised
\* stores nothing.
C13_OnlyGetSuccessStored ==
    /\ \A p \in CacheAt : \A e \in cache[p] : WrittenForGet(e)
    /\ \A c \in CallIds :
          /\ (calls[c].st # "idle" /\ calls[c].log # <<>>
                /\ toUpperCase(calls[c].request.method) # "GET")
             => StoreEvents(calls[c]) = <<>>
          /\ (\E i \in 1..Len(Attempts(calls[c])) : Attempts(calls[c])[i].t = "throw")
             => StoreEvents(calls[c]) = <<>>

\* a GET entry is held while a later successful POST call stored nothing
C13_Witness ==
    /\ \E p \in CacheAt : cache[p] # {}
    /\ Done(1) /\ Done(2)
    /\ StoreEvents(calls[1]) # <<>>
    /\ calls[2].request.method = "post"
    /\ calls[2].outcome.t = "return"
    /\ Len(Attempts(calls[2])) = 1
    /\ StoreEvents(calls[2]) = <<>>

----------------------------------------------------------------------------
(* Properties of SpecRequest *)

\* the call got as far as building its RequestContext
Built(c) == calls[c].st # "idle" /\ calls[c].request # NoRequest

\* the input handed to buildRequestContext: the parsed argument when request
\* validation is on and the endpoint has a request schema, the data otherwise
Validated(r) ==
    IF config.validateRequest /\ Contract[r.endpoint].request.present
    THEN Parse(Contract[r.endpoint].request, r.data)
    ELSE r.data

\* C14: the RequestContext of a GET endpoint has body undefined; that of a
\* POST, PUT or PATCH endpoint with a request schema has the entire validated
\* input as body, the fields substituted into the URL as path parameters
\* included.
C14_BodyByMethod ==
    \A c \in CallIds :
        Built(c)
        => LET r == calls[c]
               e == Contract[r.endpoint]
           IN /\ e.method = "get" => r.request.body = Undefined
              /\ (e.method \in {"post", "put", "patch"} /\ e.request.present)
                 => /\ r.request.body = Validated(r)
                    /\ \A i \in 1..Len(r.request.params) :
                          /\ HasKey(r.request.body, r.request.params[i].k)
                          /\ Get(r.request.body, r.request.params[i].k).s
                                = r.request.params[i].v

\* a PUT call whose id went into the URL and is still in the body
C14_Witness ==
    /\ Built(1)
    /\ calls[1].endpoint = "updateUser"
    /\ calls[1].request.params = <<[k |-> KeyId, v |-> <<"b">>]>>
    /\ calls[1].request.url = <<"h", "/", "u", "/", "b">>
    /\ calls[1].request.body = <<[k |-> KeyId, v |-> ValB], [k |-> KeyP, v |-> Str(<<"1">>)]>>

\* the contract's paths end with their only parameter, if they have one
EndsWithParam(path, k) ==
    /\ Len(path) > Len(k)
    /\ SubSeq(path, Len(path) - Len(k), Len(path)) = <<":">> \o k

\* the fields of the input that are not path parameters of the path, in input order
Remainder(path, data) ==
    IF data = Undefined THEN <<>>
    ELSE SelectSeq(data, LAMBDA f : ~EndsWithParam(path, f.k))

\* k=v of every field, joined by "&", after "?" (nothing for no field)
RECURSIVE PlainQuery(_)
PlainQuery(fields) ==
    IF fields = <<>> THEN <<>>
    ELSE (IF Len(fields) > 1 THEN PlainQuery(SubSeq(fields, 1, Len(fields) - 1)) \o <<"&">>
          ELSE <<"?">>)
         \o fields[Len(fields)].k \o <<"=">> \o fields[Len(fields)].v.s

\* the part of the url from its first "?" on
FromQuestionMark(url) ==
    IF \E i \in 1..Len(url) : url[i] = "?"
    THEN SubSeq(url, CHOOSE i \in 1..Len(url) : url[i] = "?" /\ \A j \in 1..(i - 1) : url[j] # "?",
                Len(url))
    ELSE <<>>

NoValidation == ~config.validateRequest /\ ~config.validateResponse

\* C16: with validateRequest = false and validateResponse = false an input
\* that violates the request schema is not rejected: the request is built from
\* it exactly as supplied and reaches the transport; the response body comes
\* back to the caller unchanged even when it violates the response schema; no
\* ValidationError is raised.
C16_ValidationDisabled ==
    \A c \in CallIds :
        (NoValidation /\ calls[c].st # "idle")
        => LET r == calls[c]
               e == Contract[r.endpoint]
               h == Attempts(r)
           IN /\ Built(c)
              /\ e.request.present
                 => /\ r.data = r.arg
                    /\ e.method \in {"post", "put", "patch"} => r.request.body = r.arg
                    /\ e.method = "get" => r.request.query = Remainder(e.path, r.arg)
              /\ r.ret.kind # "ValidationError"
              /\ r.outcome.kind # "ValidationError"
              /\ Done(c)
                 => /\ Len(h) = 1
                    /\ h[1].t = "return"
                       => /\ r.outcome.t = "return"
                          /\ r.outcome.data = h[1].data

\* a schema-violating input went out as body and a schema-violating body came back
C16_Witness ==
    /\ NoValidation
    /\ Done(1)
    /\ calls[1].endpoint = "updateUser"
    /\ InvalidRequest(calls[1])
    /\ calls[1].request.body = calls[1].arg
    /\ ~Accepts(Contract[calls[1].endpoint].response, calls[1].outcome.data)
    /\ calls[1].outcome.t = "return"


\* C17: an endpoint without response validator gives the caller the transport's
\* response body unchanged, whatever its shape; an endpoint without request
\* validator performs the request with undefined input: the argument passed
\* contributes no path parameter, no query and no body, and no request
\* ValidationError is raised.
C17_AbsentValidatorPassThrough ==
    \A c \in CallIds :
        calls[c].st # "idle"
        => LET r == calls[c]
               e == Contract[r.endpoint]
               h == Attempts(r)
           IN /\ (~e.response.present /\ Done(c) /\ h # <<>> /\ h[1].t = "return")
                 => /\ r.outcome.t = "return"
                    /\ r.outcome.data = h[1].data
              /\ ~e.request.present
                 => /\ Built(c)
                    /\ r.data = Undefined
                    /\ r.request.params = <<>>
                    /\ r.request.body = Undefined
                    /\ r.request.query = (IF e.method = "get" THEN <<>> ELSE Undefined)
                    /\ r.request.url = BaseUrl \o e.path
                    /\ r.outcome # ValidationError("request")

\* with both validations on, an argument was passed to an endpoint without
\* validators and ignored, and a body of unexpected shape was returned as it came
C17_Witness ==
    /\ config.validateRequest /\ config.validateResponse
    /\ Done(1)
    /\ calls[1].endpoint = "listUsers"
    /\ calls[1].arg # Undefined
    /\ calls[1].data = Undefined
    /\ calls[1].request.url = <<"h", "/", "u">>
    /\ calls[1].outcome.t = "return"
    /\ calls[1].outcome.data = <<[k |-> KeyId, v |-> ValBad]>>

----------------------------------------------------------------------------
(* Properties of SpecNested *)

\* the node of the contract tree at a key path
RECURSIVE NodeAt(_, _)
NodeAt(node, keys) == IF keys = <<>> THEN node ELSE NodeAt(node[Head(keys)], Tail(keys))

\* the adapter handles the transport events of a call used
AdaptersUsed(r) == {EventsOf(r, {"transport"})[i].to : i \in 1..Len(EventsOf(r, {"transport"}))}

\* call 1 went through a nested accessor path and call 2 through a top-level
\* key holding the same endpoint definition, with the same argument, and the
\* server answered both alike
SameEndpointNestedAndFlat ==
    /\ Done(1) /\ Done(2)
    /\ Len(calls[1].via) > 1
    /\ Len(calls[2].via) = 1
    /\ Contract[calls[2].via[1]] = NodeAt(Contract, calls[1].via)
    /\ calls[1].arg = calls[2].arg
    /\ Attempts(calls[1]) = Attempts(calls[2])

\* C18: an endpoint invoked through its nested accessor path gets the same
\* RequestContext, the same validation behaviour and the same result as the
\* same endpoint definition under a top-level key, and it runs through the
\* same middleware chain and the same adapter of the client.
C18_NestedLikeFlat ==
    /\ \A c \in CallIds :
          (calls[c].st # "idle" /\ Len(calls[c].via) > 1)
          => calls[c].target = NodeAt(Contract, calls[c].via)
    /\ SameEndpointNestedAndFlat
       => /\ calls[1].request = calls[2].request
          /\ calls[1].data = calls[2].data
          /\ calls[1].outcome = calls[2].outcome
          /\ Seen(calls[1]) = Seen(calls[2])
          /\ adapters <= 1
          /\ AdaptersUsed(calls[1]) = AdaptersUsed(calls[2])

\* client.users.admin.ping(arg) and client.updateUser(arg) gave the same result,
\* while the top-level key `ping` holds another endpoint
C18_Witness ==
    /\ SameEndpointNestedAndFlat
    /\ calls[1].via = <<"users", "admin", "ping">>
    /\ calls[2].via = <<"updateUser">>
    /\ Contract["ping"] # calls[1].target
    /\ calls[1].outcome.t = "return"
    /\ Seen(calls[1]) = << <<"before", "X", 1>>, <<"transport", "transport", 2>>,
                           <<"after", "X", 1>> >>
    /\ AdaptersUsed(calls[1]) = {1}

----------------------------------------------------------------------------
(* Properties of SpecSchema *)

\* the call was a query of the schema facility with one of the operations
Asked(c, ops) ==
    /\ Done(c)
    /\ Len(calls[c].via) = 2
    /\ calls[c].via[1] = "$schema"
    /\ calls[c].via[2] \in ops

\* the node has a `path` and a `method` field
HasPathAndMethod(key) ==
    key \in DOMAIN Contract /\ "path" \in DOMAIN Contract[key] /\ "method" \in DOMAIN Contract[key]

Listed(c) == {calls[c].outcome.data[i] : i \in 1..Len(calls[c].outcome.data)}

\* C19: a key is returned by $schema.getEndpointPaths, and accepted by
\* getEndpoint and describeEndpoint, exactly when the client exposes it as an
\* endpoint method, that is exactly when the node has a `path` and a `method`
\* field, whether or not it declares `request` and `response`; nested-contract
\* keys are never listed.
C19_SameClassification ==
    \A c \in CallIds :
        /\ Asked(c, {"getEndpointPaths"})
           => /\ Listed(c) = AllEndpointNames
              /\ Listed(c) = {key \in DOMAIN Contract : HasPathAndMethod(key)}
        /\ Asked(c, {"getEndpoint", "describeEndpoint"})
           => /\ calls[c].outcome.t = "return" <=> calls[c].endpoint \in AllEndpointNames
              /\ calls[c].outcome.t = "return" <=> HasPathAndMethod(calls[c].endpoint)

\* the message of the error names the key
NamesKey(error, key) == \E i \in 1..Len(error.data) : error.data[i] = key

\* C20: getEndpoint, getRequestSchema, getResponseSchema, getEndpointSchemas
\* and describeEndpoint, asked for a key that is not in the contract or is not
\* an endpoint, raise a ConfigError whose message names the key.
C20_LookupRaisesConfigError ==
    \A c \in CallIds :
        (Asked(c, SchemaOps) /\ ~HasPathAndMethod(calls[c].endpoint))
        => /\ calls[c].outcome.t = "throw"
           /\ calls[c].outcome.kind = "ConfigError"
           /\ NamesKey(calls[c].outcome, calls[c].endpoint)

----------------------------------------------------------------------------
(* Properties of SpecParams *)

\* separateParams was applied; its arguments and its result
Separated(c) == Done(c) /\ calls[c].via = <<"separateParams">>

\* C30: separateParams(path, data) partitions data: every key of data is in
\* exactly one of pathParams and queryParams, in pathParams exactly when it is
\* one of the names extracted from the path template; a path-parameter value is
\* String(value), a remainder value is the value itself; null and undefined
\* data give two empty mappings.
C30_SeparateParamsPartitions ==
    \A c \in CallIds :
        Separated(c)
        => LET path == calls[c].target.path
               data == calls[c].arg
               pathParams == calls[c].outcome.data.pathParams
               queryParams == calls[c].outcome.data.queryParams
           IN IF data \in {Undefined, Null}
              THEN pathParams = <<>> /\ queryParams = <<>>
              ELSE /\ Keys(pathParams) \cup Keys(queryParams) = Keys(data)
                   /\ Keys(pathParams) \cap Keys(queryParams) = {}
                   /\ Len(pathParams) + Len(queryParams) = Len(data)
                   /\ \A k \in Keys(data) :
                         k \in Keys(pathParams) <=> Includes(extractPathParamNames(path), k)
                   /\ \A k \in Keys(pathParams) : Get(pathParams, k) = String(Get(data, k))
                   /\ \A k \in Keys(queryParams) : Get(queryParams, k) = Get(data, k)

C30_Witness ==
    /\ Separated(1)
    /\ calls[1].target.path = <<"/", ":", "p", "/", ":", "i", "d">>
    /\ calls[1].arg = <<[k |-> <<"x">>, v |-> ValA], [k |-> KeyId, v |-> Num(<<"1">>)],
                        [k |-> KeyP, v |-> ValA]>>
    /\ calls[1].outcome.data.pathParams = <<[k |-> KeyId, v |-> <<"1">>], [k |-> KeyP, v |-> <<"a">>]>>
    /\ calls[1].outcome.data.queryParams = <<[k |-> <<"x">>, v |-> ValA]>>

----------------------------------------------------------------------------
(* Properties of SpecAdapter *)

AdapterErrors == {"HttpError", "NetworkError", "TimeoutError"}

----------------------------------------------------------------------------
(* Error propagation (Spec) *)

\* what the last transport attempt of the call gave
LastAttemptOf(r) == Attempts(r)[Len(Attempts(r))]

\* C25: a call ends by returning data or by rejecting with an error, and never
\* stops in between; when the transport raised e and no middleware handled it
\* (there is no retry middleware in the list), the caller's rejection is e
\* itself, the same object; a call that returns data had no error raised in it.
C25_ErrorsReachCallerUnchanged ==
    \A c \in CallIds :
        /\ Done(c) => calls[c].outcome.t \in {"return", "throw"}
        /\ calls[c].st = "running" => ENABLED Next
        /\ (Done(c) /\ Attempts(calls[c]) # <<>> /\ LastAttemptOf(calls[c]).t = "throw")
           => calls[c].outcome = LastAttemptOf(calls[c])
        /\ (Done(c) /\ calls[c].outcome.t = "return")
           => /\ \A i \in 1..Len(Attempts(calls[c])) : Attempts(calls[c])[i].t = "return"
              /\ ~(config.validateRequest /\ InvalidRequest(calls[c]))

C25_Witness ==
    /\ Done(1)
    /\ Len(middleware) = MaxMw
    /\ OnlyLoggers(middleware)
    /\ Attempts(calls[1]) = <<HttpError(404, 1)>>
    /\ calls[1].outcome = HttpError(404, 1)

----------------------------------------------------------------------------
(* Properties of SpecRace *)

\* the handles the transport calls of the client were made on
HandlesUsed ==
    UNION {{EventsOf(calls[c], {"transport"})[j].to :
               j \in 1..Len(EventsOf(calls[c], {"transport"}))} : c \in CallIds}

\* C23: over the life of a client at most one transport-adapter handle is
\* created and every transport call uses that handle, also when several calls
\* are started before the first creation has completed.
C23_OneAdapterHandle ==
    /\ adapters <= 1
    /\ Cardinality(HandlesUsed) <= 1
    /\ HandlesUsed \subseteq {adapter}

----------------------------------------------------------------------------
(* Properties of SpecParallel *)

\* the j-th `next` of a call that runs alone goes from position j-1 to position j
AloneNext(j) ==
    [ev |-> "next",
     mw |-> IF j <= Len(middleware) THEN middleware[j].name ELSE "transport",
     pos |-> j - 1, to |-> j, res |-> NoVal]

\* C26: calls that run concurrently on one client do not disturb each other's
\* chain: whatever the interleaving, the `next` invocations of each call visit
\* the positions of the list one by one in list order, and a finished call has
\* the log it would have had alone (before-logic in order, one transport call,
\* after-logic in reverse order).
C26_CallsDoNotInterfere ==
    \A c \in CallIds :
        LET r == calls[c]
            nexts == EventsOf(r, {"next"})
            transport == <<<<"transport", "transport", Len(middleware) + 1>>>>
        IN /\ \A j \in 1..Len(nexts) : nexts[j] = AloneNext(j)
           /\ (Done(c) /\ r.log # <<>>)
              => /\ Len(Attempts(r)) = 1
                 /\ middleware # <<>> => Len(nexts) = Len(middleware) + 1
                 /\ Seen(r) = Befores(middleware) \o transport
                              \o (IF Attempts(r)[1].t = "return" THEN Afters(middleware)
                                  ELSE <<>>)

\* call 2 went through the whole chain while call 1 was suspended in the middle of it
C26_Witness ==
    /\ Len(middleware) = MaxMw
    /\ calls[1].st = "running"
    /\ Len(EventsOf(calls[1], {"before"})) = 1
    /\ Done(2)
    /\ calls[2].outcome.t = "return"
    /\ Len(Seen(calls[2])) = 2 * MaxMw + 1

----------------------------------------------------------------------------
(* Properties of SpecShared *)

\* the entry is what call c wrote at position p: the response c's own `next`
\* returned, the clock reading of the write, the ttl of the middleware, under
\* the key of c's request
WrittenBy(e, c, p) ==
    /\ e.key = defaultKeyGenerator(calls[c].request)
    /\ e.ttl = middleware[p].ttl
    /\ \E j \in 1..Len(EventsAt(calls[c], {"store"}, p)) :
          /\ EventsAt(calls[c], {"store"}, p)[j].res = e.data
          /\ EventsAt(calls[c], {"store"}, p)[j].to = e.timestamp
    /\ \E j \in 1..Len(Attempts(calls[c])) : Attempts(calls[c])[j] = e.data

\* one entry per key at most, each written as a whole by one call
StoreIntact ==
    \A p \in CacheAt :
        /\ \A e1, e2 \in cache[p] : e1.key = e2.key => e1 = e2
        /\ \A e \in cache[p] : \E c \in CallIds : WrittenBy(e, c, p)

\* a write of call c at position p: afterwards the key holds c's entry and
\* nothing else, and the entries of the other keys are as before
LastWriterWins(c, p) ==
    LET e == Appended(c)
        key == defaultKeyGenerator(calls[c].request)
    IN (e.ev = "store" /\ e.pos = p)
       => /\ {x \in cache'[p] : x.key = key}
              = {[key |-> key, data |-> e.res, timestamp |-> e.to, ttl |-> middleware[p].ttl]}
          /\ {x \in cache'[p] : x.key # key} = {x \in cache[p] : x.key # key}

\* C27: under any interleaving of concurrent calls that share one cache
\* middleware with the in-memory storage, the store holds at most one entry
\* per key, each entry is the {data, timestamp, ttl} one call wrote for that
\* key (the last writer's), never a mixture and never under another key.
C27_StoreNeverCorrupted ==
    /\ [][\A c \in CallIds : \A p \in CacheAt : LastWriterWins(c, p)]_vars
    /\ []StoreIntact

\* both calls missed, both asked the server, and the second write replaced the first
C27_Witness ==
    /\ Done(1) /\ Done(2)
    /\ calls[1].request = calls[2].request
    /\ EventsAt(calls[1], {"store"}, 1) # <<>>
    /\ EventsAt(calls[2], {"store"}, 1) # <<>>
    /\ calls[1].outcome # calls[2].outcome
    /\ Cardinality(cache[1]) = 1
    /\ \E e \in cache[1] : e.data.data = calls[2].outcome.data /\ e.timestamp = MaxTime

----------------------------------------------------------------------------
(* Properties of SpecUse *)

\* the middleware added with use(), in the order of the use() calls
UsedList == [k \in 1..Len(caller.used) |-> caller.used[k].mw]

\* C21: a middleware added with client.use(m) is placed at the end of the
\* list: the list is the construction-time list followed by the added ones in
\* the order of the use() calls, and in every call made after use(m) the
\* before-logic of m runs after the before-logic of everything ahead of it; as
\* long as nothing was added after m, m is the one that calls the transport and
\* its after-logic is the first to run on the way back.
C21_UseAppends ==
    /\ middleware = caller.passed \o UsedList
    /\ \A k \in 1..Len(caller.used) : \A c \in CallIds :
          (c > caller.used[k].calls /\ Done(c) /\ calls[c].log # <<>>)
          => LET p == Len(caller.passed) + k
                 seen == Seen(calls[c])
                 m == caller.used[k].mw
             IN /\ Len(seen) > p
                /\ \A i \in 1..(p - 1) : seen[i] = <<"before", middleware[i].name, i>>
                /\ seen[p] = <<"before", m.name, p>>
                /\ k = Len(caller.used)
                   => /\ seen[p + 1] = <<"transport", "transport", p + 1>>
                      /\ Attempts(calls[c])[1].t = "return"
                         => /\ Len(seen) > p + 1
                            /\ seen[p + 2] = <<"after", m.name, p>>

\* Y was added before the first call and Z between the calls
C21_Witness ==
    /\ caller.passed = <<Logger("X")>>
    /\ UsedList = <<Logger("Y"), Logger("Z")>>
    /\ caller.used[1].calls = 0
    /\ caller.used[2].calls = 1
    /\ Done(1) /\ Done(2)
    /\ Seen(calls[1]) = << <<"before", "X", 1>>, <<"before", "Y", 2>>,
                           <<"transport", "transport", 3>>,
                           <<"after", "Y", 2>>, <<"after", "X", 1>> >>
    /\ Seen(calls[2]) = << <<"before", "X", 1>>, <<"before", "Y", 2>>, <<"before", "Z", 3>>,
                           <<"transport", "transport", 4>>,
                           <<"after", "Z", 3>>, <<"after", "Y", 2>>, <<"after", "X", 1>> >>

\* C22: the caller's ClientConfig is copied at construction and not touched
\* afterwards: whatever use() calls were made, the middleware array the caller
\* passed holds the elements it held when it was passed, and a second client
\* built from the same config does not have (and so does not run) a middleware
\* that was added to the first client with use().
C22_CallerConfigUntouched ==
    /\ caller.config.middleware # Absent => The(caller.config.middleware) = caller.passed
    /\ caller.clients = 2
       => \A k \in 1..Len(caller.used) : ~Includes(SecondMiddleware, caller.used[k].mw)

----------------------------------------------------------------------------
(* Properties of SpecCreate *)

\* new URL(url) accepts the string: it has a scheme
WellFormed(url) == \E i \in 2..Len(url) : url[i] = ":"

\* a missing or malformed target address, a negative timeout or retry count
InvalidConfig(cfg) ==
    \/ cfg.baseUrl = Absent
    \/ \E url \in cfg.baseUrl : url = <<>> \/ ~WellFormed(url)
    \/ \E timeout \in cfg.timeout : timeout < 0
    \/ \E retries \in cfg.retries : retries < 0

\* C29: createClient raises a ConfigError and returns no client exactly when
\* the configuration is invalid (target address missing or malformed, timeout
\* or retry count negative); with a valid configuration it returns a client.
C29_InvalidConfigRaisesConfigError ==
    caller.client.t # "none"
    => /\ InvalidConfig(caller.config) <=> caller.client.t = "throw"
       /\ caller.client.t = "throw" => caller.client.kind = "ConfigError"

\* what the middlewares and the transport were seen doing, by name: the
\* positions of a composition's arguments are those of its own list
SeenNames(r) ==
    LET es == EventsOf(r, {"before", "after", "transport"})
    IN [i \in 1..Len(es) |-> <<es[i].ev, es[i].mw>>]

OnionNames(list, returned) ==
    [i \in 1..Len(list) |-> <<"before", list[i].name>>]
    \o << <<"transport", "transport">> >>
    \o (IF returned
        THEN [i \in 1..Len(list) |-> <<"after", list[Len(list) + 1 - i].name>>]
        ELSE <<>>)

\* C28: a composeMiddleware(A, B, ...) element of the list behaves as the same
\* middlewares spliced in at its position: a finished call of the client with
\* the compositions (nested ones included) and a finished call of the client
\* with the spliced list both show the before-logic of the spliced list in
\* order, the transport once, and the after-logic in reverse.
C28_ComposeIsSplicing ==
    \A c \in CallIds :
        (Done(c) /\ calls[c].log # <<>>)
        => /\ Len(Attempts(calls[c])) = 1
           /\ SeenNames(calls[c])
                = OnionNames(Spliced(middleware), Attempts(calls[c])[1].t = "return")

C28_Witness ==
    /\ Done(1)
    /\ middleware = <<Logger("X"), Compose(<<Logger("Y"), Compose(<<Logger("Z")>>)>>), Logger("X")>>
    /\ SeenNames(calls[1])
         = << <<"before", "X">>, <<"before", "Y">>, <<"before", "Z">>, <<"before", "X">>,
              <<"transport", "transport">>,
              <<"after", "X">>, <<"after", "Z">>, <<"after", "Y">>, <<"after", "X">> >>

Replaced(c) == Done(c) /\ calls[c].via = <<"replacePath">>

Occurrences(seq, x) == Cardinality({i \in 1..Len(seq) : seq[i] = x})

\* C31: when the path template contains a parameter name more than once and
\* replacePath is given a value for that name, the resolved path has no
\* remaining placeholder for that name.
C31_DuplicateNamesAllReplaced ==
    \A c \in CallIds :
        Replaced(c)
        => \A k \in Keys(calls[c].arg) :
              Occurrences(extractPathParamNames(calls[c].target.path), k) > 1
              => ~Includes(extractPathParamNames(calls[c].outcome.data), k)

\* the template with each placeholder segment `:name` that has a value in
\* params replaced by the percent-encoded value
RECURSIVE SegmentsReplaced(_, _)
SegmentsReplaced(path, params) ==
    IF path = <<>> THEN <<>>
    ELSE IF Head(path) = ":" /\ Len(path) > 1 /\ path[2] # "/"
         THEN LET name == SubSeq(path, 2, RunEnd(path, 2))
                  rest == SubSeq(path, RunEnd(path, 2) + 1, Len(path))
              IN (IF HasKey(params, name) THEN encodeURIComponent(Get(params, name))
                  ELSE <<":">> \o name)
                 \o SegmentsReplaced(rest, params)
         ELSE <<Head(path)>> \o SegmentsReplaced(Tail(path), params)

\* C35: replacePath replaces the placeholder segment `:name` itself and
\* nothing else: with distinct names in the template, one a prefix of another
\* or not, and a value supplied for every extracted name, each placeholder is
\* replaced by the value of its own name and no `:` placeholder remains.
C35_PlaceholderItselfReplaced ==
    \A c \in CallIds :
        LET path == calls[c].target.path
            names == extractPathParamNames(path)
        IN (/\ Replaced(c)
            /\ \A i \in 1..Len(names) : Occurrences(names, names[i]) = 1
            /\ \A i \in 1..Len(names) : HasKey(calls[c].arg, names[i]))
           => /\ calls[c].outcome.data = SegmentsReplaced(path, calls[c].arg)
              /\ extractPathParamNames(calls[c].outcome.data) = <<>>

\* the delays passed to setTimeout by the retry middleware at position p, in order
Timers(r, p) ==
    LET es == EventsAt(r, {"timer"}, p)
    IN [i \in 1..Len(es) |-> es[i].to]

\* C32: the delay slept after the failed attempt n (zero-based) is
\* delay*(n+1) for backoff 'linear' and delay*2^n for backoff 'exponential'
\* (the default), so the delays of one call never decrease.
C32_BackoffDelays ==
    \A c \in CallIds : \A p \in Retries(middleware) :
        LET timers == Timers(calls[c], p)
            m == middleware[p]
        IN /\ \A i \in 1..Len(timers) :
                 timers[i] = IF m.backoff = Some("linear") THEN m.delay * i
                             ELSE m.delay * (2 ^ (i - 1))
           /\ \A i \in 1..(Len(timers) - 1) : timers[i] <= timers[i + 1]

C32_Witness ==
    /\ Done(1)
    /\ middleware = <<RetryWith(MaxRetries, 3, Some("exponential"), FALSE)>>
    /\ Len(Timers(calls[1], 1)) = MaxRetries
    /\ Timers(calls[1], 1)[MaxRetries] = 3 * (2 ^ (MaxRetries - 1))

\* the place in the log of the i-th event of one of the kinds
NthEvent(r, kinds, i) ==
    CHOOSE j \in 1..Len(r.log) :
        /\ r.log[j].ev \in kinds
        /\ Cardinality({k \in 1..j : r.log[k].ev \in kinds}) = i

\* C33: the onRetry callback of a retry middleware is called once per retry
\* performed, with the attempt numbers 1, 2, ... in order and the error that
\* caused the retry (a retryable one), after the failed attempt and before
\* the sleep and the next transport attempt; a finished call has one call less
\* than attempts, so there is none for a non-retryable error or after the last
\* failed attempt, and none at all without a callback.
C33_OnRetryOncePerRetry ==
    \A c \in CallIds : \A p \in Retries(middleware) :
        LET r == calls[c]
            called == EventsAt(r, {"onRetry"}, p)
            attempts == Attempts(r)
        IN IF ~middleware[p].onRetry THEN called = <<>>
           ELSE /\ Len(called) = Len(EventsAt(r, {"sleep"}, p))
                /\ Len(attempts) \in {Len(called), Len(called) + 1}
                /\ (Done(c) /\ r.log # <<>>) => Len(attempts) = Len(called) + 1
                /\ \A i \in 1..Len(called) :
                      /\ called[i].to = i
                      /\ called[i].res = attempts[i]
                      /\ called[i].res.t = "throw"
                      /\ Retryable(called[i].res)
                      /\ i < middleware[p].retries + 1
                      /\ NthEvent(r, {"transport"}, i) < NthEvent(r, {"onRetry"}, i)
                      /\ NthEvent(r, {"onRetry"}, i) < NthEvent(r, {"timer"}, i)
                      /\ i < Len(attempts)
                         => NthEvent(r, {"timer"}, i) < NthEvent(r, {"transport"}, i + 1)

C33_Witness ==
    /\ Done(1)
    /\ middleware = <<RetryWith(MaxRetries, 1, Absent, TRUE)>>
    /\ Len(EventsAt(calls[1], {"onRetry"}, 1)) = MaxRetries
    /\ calls[1].outcome.t = "throw"

Sleeps(r, p) == Len(EventsAt(r, {"sleep"}, p))

\* the retry middleware is the running function and no attempt is pending
AfterLastAttempt(r, p) ==
    /\ r.stack # <<>>
    /\ Top(r).pos = p
    /\ Top(r).mw.name = "Retry"
    /\ Len(Attempts(r)) = middleware[p].retries + 1

\* at most N+1 attempts and N sleeps, one attempt between two sleeps, and no
\* sleep after attempt N+1
RetryBounded ==
    \A c \in CallIds : \A p \in Retries(middleware) :
        LET r == calls[c]
            retries == middleware[p].retries
        IN /\ Len(Attempts(r)) <= retries + 1
           /\ Sleeps(r, p) <= retries
           /\ Sleeps(r, p) <= Len(Attempts(r))
           /\ Len(Attempts(r)) <= Sleeps(r, p) + 1
           /\ AfterLastAttempt(r, p) => Top(r).pc # "sleep"

\* C39: a call through retryMiddleware with retries = N always terminates
\* when every transport attempt terminates and timers fire: it makes at most
\* N+1 attempts and N sleeps, each sleep follows an attempt of its own, it
\* never sleeps after the last attempt, and once started it ends with a
\* response or an error.
C39_RetryTerminates ==
    /\ []RetryBounded
    /\ (calls[1].st = "running") ~> (Done(1) /\ calls[1].outcome.t \in {"return", "throw"})

C39_Witness ==
    /\ Done(1)
    /\ middleware = <<RetryWith(MaxRetries, 3, Some("linear"), FALSE), Logger("X")>>
    /\ Len(Attempts(calls[1])) = MaxRetries + 1
    /\ Sleeps(calls[1], 1) = MaxRetries
    /\ calls[1].outcome.t = "return"

\* C34: the RequestContext of a DELETE or HEAD endpoint has no body and no
\* query: the URL is the base URL and the path with its parameters
\* substituted, without a query string, and a field of the input that is not
\* a path parameter is in none of url, params, query and body.
C34_NoBodyNoQueryForDeleteHead ==
    \A c \in CallIds :
        (Built(c) /\ Contract[calls[c].endpoint].method \in {"delete", "head"})
        => LET r == calls[c]
               e == Contract[r.endpoint]
           IN /\ r.request.body = Undefined
              /\ r.request.query = Undefined
              /\ r.request.url = BaseUrl \o SegmentsReplaced(e.path, r.request.params)
              /\ FromQuestionMark(r.request.url) = <<>>
              /\ \A k \in Keys(r.request.params) : Includes(extractPathParamNames(e.path), k)

\* a HEAD call whose validated input has a field beside the path parameter
C34_Witness ==
    /\ Built(1)
    /\ config.validateRequest
    /\ calls[1].endpoint = "headUser"
    /\ Validated(calls[1]) = <<[k |-> KeyId, v |-> ValA], [k |-> KeyP, v |-> Str(<<"1">>)]>>
    /\ calls[1].request.url = <<"h", "/", "u", "/", "a">>
    /\ calls[1].request.params = <<[k |-> KeyId, v |-> <<"a">>]>>
    /\ calls[1].request.body = Undefined
    /\ calls[1].request.query = Undefined

\* call d looked the store at position p up within ttl of the store event e
LookedUpWithin(d, p, e) ==
    \E i \in 1..Len(EventsAt(calls[d], {"hit", "miss"}, p)) :
        EventsAt(calls[d], {"hit", "miss"}, p)[i].to - e.to <= middleware[p].ttl

\* C36: the cache middleware stores the raw response before the client
\* validates it: a GET call answered 2xx with a body that fails response
\* validation rejects with a response ValidationError and has stored the
\* entry all the same, and the next call, when it is identical and looks the
\* store up within ttl, is a hit that rejects with a response ValidationError
\* again and makes no transport call.
C36_InvalidBodyCached ==
    \A c \in CallIds : \A p \in CacheAt :
        LET r == calls[c]
            stores == EventsAt(r, {"store"}, p)
        IN (/\ Done(c)
            /\ config.validateResponse
            /\ Contract[r.endpoint].method = "get"
            /\ BadBodyReceived(r))
           => /\ r.outcome = ValidationError("response")
              /\ Len(stores) = 1
              /\ stores[1].res = Attempts(r)[1]
              /\ (/\ c + 1 \in CallIds
                  /\ Done(c + 1)
                  /\ calls[c + 1].request = r.request
                  /\ LookedUpWithin(c + 1, p, stores[1]))
                 => /\ Len(EventsAt(calls[c + 1], {"hit"}, p)) = 1
                    /\ TransportCalls(calls[c + 1]) = 0
                    /\ calls[c + 1].outcome = ValidationError("response")

C36_Witness ==
    /\ Done(1)
    /\ Done(2)
    /\ config.validateResponse
    /\ BadBodyReceived(calls[1])
    /\ calls[1].outcome = ValidationError("response")
    /\ calls[2].request = calls[1].request
    /\ TransportCalls(calls[2]) = 0
    /\ calls[2].outcome = ValidationError("response")

Missed(c, p) == EventsAt(calls[c], {"miss"}, p) # <<>>

Stores(c, p) == Len(EventsAt(calls[c], {"store"}, p))

\* C37: the cache does no in-flight de-duplication: as long as no call has
\* written an entry, every call that reads the store misses, whatever other
\* calls with the same key are in flight; each call that missed invokes the
\* transport itself, once, and writes the entry itself when the answer is a
\* 2xx to a GET, so n concurrent misses make n transport calls and n writes.
C37_NoInFlightDeduplication ==
    \A p \in CacheAt :
        /\ (\A c \in CallIds : Stores(c, p) = 0)
           => \A c \in CallIds : EventsAt(calls[c], {"hit"}, p) = <<>>
        /\ \A c \in CallIds :
              (Done(c) /\ Missed(c, p))
              => /\ TransportCalls(calls[c]) = 1
                 /\ Stores(c, p) = IF /\ calls[c].request.method = "get"
                                      /\ Attempts(calls[c])[1].t = "return"
                                      /\ Attempts(calls[c])[1].status \in 200..299
                                   THEN 1 ELSE 0

\* two calls with the same key, both answered 200 with the same body: two
\* misses, two transport calls, two writes
C37_Witness ==
    /\ Done(1) /\ Done(2)
    /\ defaultKeyGenerator(calls[1].request) = defaultKeyGenerator(calls[2].request)
    /\ Missed(1, 1) /\ Missed(2, 1)
    /\ TransportCalls(calls[1]) + TransportCalls(calls[2]) = 2
    /\ Stores(1, 1) + Stores(2, 1) = 2
    /\ calls[1].outcome = calls[2].outcome

\* C38: a middleware appended with client.use(m) while a call is in flight
\* does not run in that call: a call that had started when the k-th use() was
\* made shows no before-logic or after-logic of the middleware it added.
C38_ChainFixedAtCallStart ==
    \A c \in CallIds : \A k \in 1..Len(caller.used) :
        caller.used[k].calls >= c
        => EventsAt(calls[c], {"before", "after"}, Len(caller.passed) + k) = <<>>

\* the middleware of call c has written to request.headers
Authorized(c) == EventsOf(calls[c], {"auth"}) # <<>>

\* C40: each call gets a RequestContext with a headers object of its own: a
\* middleware that writes to request.headers during one call changes neither
\* the client's default headers nor the RequestContext of any other call, so
\* the headers of a call's request are the client's defaults, plus what the
\* middleware wrote once it has run in that very call.
C40_FreshHeadersPerCall ==
    /\ config.headers \in HeaderDefaults
    /\ \A c \in CallIds :
          Built(c)
          => calls[c].request.headers.entries
                = IF Authorized(c) THEN Put(config.headers, KeyAuthorization, Token)
                  ELSE config.headers

\* the first call's middleware has written its header, the second call has
\* been built and its middleware has not run yet
C40_Witness ==
    /\ middleware = <<Logger("X"), Auth>>
    /\ config.headers # <<>>
    /\ Built(1) /\ Built(2)
    /\ Authorized(1)
    /\ ~Authorized(2)
    /\ HasKey(calls[1].request.headers.entries, KeyAuthorization)
    /\ calls[2].request.headers.entries = config.headers

====
